---- MODULE Spec2Model ----
(***************************************************************************)
(* CFC Order Workflow backend (main.py v5.2, gmail_sync.py,                *)
(* square_sync.py): the orders table, the order_events log and the         *)
(* handlers that reconcile external signals with orders.                   *)
(*                                                                         *)
(* Every handler runs on a PostgreSQL connection at READ COMMITTED.  A     *)
(* handler is a sequence of steps of one process: a SELECT is one step,    *)
(* and the UPDATE/INSERT statements up to the commit that follows them     *)
(* are one step, since no other connection can read what they wrote        *)
(* before the commit.  NOW() is the logical clock now; it advances by one  *)
(* with every committed write, so two transactions never share a stamp.    *)
(* Money is in whole dollars.                                              *)
(***************************************************************************)
EXTENDS Integers, Sequences, FiniteSets, TLC

VARIABLES
    orders,         \* table orders: order_id -> row (DOMAIN orders = the ids stored)
    order_events,   \* table order_events, in event_id order
    order_alerts,   \* table order_alerts, in id order
    order_line_items,   \* table order_line_items, in id order
    warehouse_mapping,  \* table warehouse_mapping: sku_prefix -> warehouse_name
    access_token,       \* gmail_sync._access_token
    token_expires,      \* gmail_sync._token_expires
    now,            \* NOW()
    pc,             \* per process: the step of the handler it is running
    loc,            \* per process: the locals of the handler it is running
    resp            \* per process: what its last finished handler returned

vars == <<orders, order_events, order_alerts, order_line_items, warehouse_mapping,
          access_token, token_expires, now, pc, loc, resp>>

-----------------------------------------------------------------------------
(* Bounds of the model *)

\* NOW() stops advancing here: at most MaxTime - 1 committed writes per behaviour
MaxTime == 4

Procs == {"p1", "p2"}

OrderIds == {"5301", "5302"}

-----------------------------------------------------------------------------
(* SQL NULL / Python None, and values that may be NULL *)

NULL == << >>

Some(v) == <<v>>

Val(x) == x[1]

\* Python truthiness of an optional number: None and 0 are falsy
Truthy(x) == x # NULL /\ Val(x) # 0

-----------------------------------------------------------------------------
(* Text: a string is a sequence of one-character strings *)

Lower(ch) ==
    CASE ch = "A" -> "a"
      [] ch = "B" -> "b"
      [] ch = "C" -> "c"
      [] ch = "D" -> "d"
      [] ch = "E" -> "e"
      [] ch = "F" -> "f"
      [] ch = "G" -> "g"
      [] ch = "H" -> "h"
      [] ch = "I" -> "i"
      [] ch = "J" -> "j"
      [] ch = "K" -> "k"
      [] ch = "L" -> "l"
      [] ch = "M" -> "m"
      [] ch = "N" -> "n"
      [] ch = "O" -> "o"
      [] ch = "P" -> "p"
      [] ch = "Q" -> "q"
      [] ch = "R" -> "r"
      [] ch = "S" -> "s"
      [] ch = "T" -> "t"
      [] ch = "U" -> "u"
      [] ch = "V" -> "v"
      [] ch = "W" -> "w"
      [] ch = "X" -> "x"
      [] ch = "Y" -> "y"
      [] ch = "Z" -> "z"
      [] OTHER -> ch

\* str.lower() / SQL LOWER()
LowerStr(s) == [i \in 1..Len(s) |-> Lower(s[i])]

\* needle in hay: SQL  hay LIKE '%needle%'
Contains(hay, needle) ==
    \E i \in 1..(Len(hay) + 1) :
        /\ i + Len(needle) - 1 <= Len(hay)
        /\ SubSeq(hay, i, i + Len(needle) - 1) = needle

\* the index of the first non-blank character at or after i, Len(s) + 1 if none
RECURSIVE SkipBlanks(_, _)
SkipBlanks(s, i) ==
    IF i > Len(s) THEN Len(s) + 1
    ELSE IF s[i] # " " THEN i
    ELSE SkipBlanks(s, i + 1)

\* the index of the first blank at or after i, Len(s) + 1 if none
RECURSIVE SkipWord(_, _)
SkipWord(s, i) ==
    IF i > Len(s) THEN Len(s) + 1
    ELSE IF s[i] = " " THEN i
    ELSE SkipWord(s, i + 1)

\* s.split()[0]; callers make sure s holds a non-blank character
FirstToken(s) ==
    LET b == SkipBlanks(s, 1)
    IN  SubSeq(s, b, SkipWord(s, b) - 1)

-----------------------------------------------------------------------------
(* Schema *)

valid_checkpoints ==
    <<"payment_link_sent", "payment_received", "sent_to_warehouse",
      "warehouse_confirmed", "bol_sent", "is_complete">>

Checkpoints == {valid_checkpoints[i] : i \in 1..Len(valid_checkpoints)}

\* the timestamp column paired with a checkpoint flag
TimestampField(c) ==
    CASE c = "payment_link_sent" -> "payment_link_sent_at"
      [] c = "payment_received" -> "payment_received_at"
      [] c = "sent_to_warehouse" -> "sent_to_warehouse_at"
      [] c = "warehouse_confirmed" -> "warehouse_confirmed_at"
      [] c = "bol_sent" -> "bol_sent_at"
      [] c = "is_complete" -> "completed_at"

\* a row of orders as INSERT leaves it when only the given columns are named:
\* the flags default to FALSE and every other column to NULL
NewOrder(customer_name, company_name, order_date, order_total, t) ==
    [ customer_name |-> customer_name,
      company_name |-> company_name,
      order_date |-> order_date,
      order_total |-> order_total,
      payment_link_sent |-> FALSE,
      payment_link_sent_at |-> NULL,
      payment_received |-> FALSE,
      payment_received_at |-> NULL,
      payment_amount |-> NULL,
      shipping_cost |-> NULL,
      sent_to_warehouse |-> FALSE,
      sent_to_warehouse_at |-> NULL,
      warehouse_confirmed |-> FALSE,
      warehouse_confirmed_at |-> NULL,
      bol_sent |-> FALSE,
      bol_sent_at |-> NULL,
      is_complete |-> FALSE,
      completed_at |-> NULL,
      is_trusted_customer |-> FALSE,
      warehouse_1 |-> NULL,
      warehouse_2 |-> NULL,
      rl_quote_no |-> NULL,
      tracking |-> NULL,
      pro_number |-> NULL,
      created_at |-> t,
      updated_at |-> t ]

\* a row of order_events
Event(order_id, event_type, event_data, source, t) ==
    [ order_id |-> order_id,
      event_type |-> event_type,
      event_data |-> event_data,
      source |-> source,
      created_at |-> t ]

\* what a handler returned: status is the HTTP status (200, or that of the
\* HTTPException raised; 0 for a function called in process) and body the JSON
\* object or the return value
Resp(op, status, body) == [op |-> op, status |-> status, body |-> body]

NoResp == Resp("", 0, NULL)

NoLocals == [op |-> ""]

-----------------------------------------------------------------------------
(* Steps common to all handlers *)

\* the handler of p returns r
Return(p, r) ==
    /\ pc' = [pc EXCEPT ![p] = "idle"]
    /\ loc' = [loc EXCEPT ![p] = NoLocals]
    /\ resp' = [resp EXCEPT ![p] = r]

\* the transaction writes row and appends ev, and commits
Commit(order_id, row, ev) ==
    /\ now < MaxTime
    /\ orders' = (order_id :> row) @@ orders
    /\ order_events' = Append(order_events, ev)
    /\ now' = now + 1
    /\ UNCHANGED <<order_alerts, order_line_items, warehouse_mapping,
                   access_token, token_expires>>

\* the transaction ends having written nothing
NoWrite == UNCHANGED <<orders, order_events, order_alerts, order_line_items, warehouse_mapping,
                       access_token, token_expires, now>>

-----------------------------------------------------------------------------
(* Inputs: the values the handlers are called with *)

Empty == << >>

AlRoy == <<"A", "l", " ", "R", "o", "y">>

SalKim == <<"S", "a", "l", " ", "K", "i", "m">>

KimCo == <<"K", "I", "M", " ", "C", "o">>

\* payers named in payment notifications
PayerAlRoy == <<"A", "L", " ", "R", "o", "y">>

PayerKim == <<"K", "i", "m">>

CustomerNames == {AlRoy, SalKim}

CompanyNames == {Empty, KimCo}

PayerNames == {PayerAlRoy, PayerKim}

\* gross_total of an upstream order (NULL: the payload has none)
GrossTotals == {NULL, Some(20), Some(100)}

\* submitted_at of an upstream order
SubmittedDates == {Some(1), Some(2)}

\* amounts of payments
Amounts == {19, 20, 95}

\* SKU prefixes of the products of an upstream order, or of an order email
SkuPrefixLists == {<< >>, <<"AKS">>, <<"WWW">>, <<"AKS", "GHI">>, <<"AKS", "WWW">>}

\* B2BWave order payloads
Payloads ==
    [ id : OrderIds, customer_name : CustomerNames, customer_company : CompanyNames,
      gross_total : GrossTotals, submitted_at : SubmittedDates,
      sku_prefixes : SkuPrefixLists ]

\* email bodies handed to the payment-link detector
BodyLink == <<"s", "q", "u", "a", "r", "e", ".", "l", "i", "n", "k", "/", "x">>

BodyLinkUpper == <<"a", "t", " ", "S", "Q", "U", "A", "R", "E", ".", "L", "I", "N", "K">>

BodyNoLink == <<"s", "q", "u", "a", "r", "e", " ", "l", "i", "n", "k">>

EmailBodies == {BodyLink, BodyLinkUpper, BodyNoLink}

\* 'square.link' in email_body.lower()
HasSquareLink(email_body) ==
    Contains(LowerStr(email_body), <<"s", "q", "u", "a", "r", "e", ".", "l", "i", "n", "k">>)

\* JSON bodies of PATCH /orders/{order_id}/checkpoint.  value is a property the
\* CheckpointUpdate model does not declare: a client asking to clear the flag
CheckpointNames == Checkpoints \cup {"shipped"}

CheckpointBodies ==
    [ checkpoint : CheckpointNames, source : {NULL},
      payment_amount : {NULL, Some(0), Some(120)}, value : BOOLEAN ]

-----------------------------------------------------------------------------
(* get_warehouses_for_skus *)

\* the orders a query without ORDER BY may return the rows ids in
AnyOrder(ids) ==
    { list \in [1..Cardinality(ids) -> ids] :
        \A i, j \in 1..Cardinality(ids) : i # j => list[i] # list[j] }

\* the default rows of warehouse_mapping: sku_prefix -> warehouse_name, for the
\* prefixes of the inputs
WarehouseMapping ==
    [ AKS |-> "GHI", GHI |-> "GHI", WWW |-> "LOVE",
      HSS |-> "Cabinet & Stone", NSN |-> "Cabinet & Stone" ]

\* the prefixes of the list that have a row in warehouse_mapping
MappedPrefixes(sku_prefixes) ==
    {sku_prefixes[i] : i \in 1..Len(sku_prefixes)} \cap DOMAIN warehouse_mapping

\* the query without DISTINCT: one warehouse_name for each prefix
GetWarehousesForSkus_All(sku_prefixes) ==
    { [i \in 1..Len(list) |-> warehouse_mapping[list[i]]] :
          list \in AnyOrder(MappedPrefixes(sku_prefixes)) }

\* SELECT DISTINCT warehouse_name FROM warehouse_mapping WHERE sku_prefix IN (...)
GetWarehousesForSkus(sku_prefixes) ==
    AnyOrder({warehouse_mapping[x] : x \in MappedPrefixes(sku_prefixes)})

\* warehouses[n] if len(warehouses) > n else None
WarehouseSlot(warehouses, n) ==
    IF Len(warehouses) >= n THEN Some(warehouses[n]) ELSE NULL

\* COALESCE(a, b)
Coalesce(a, b) == IF a # NULL THEN a ELSE b

-----------------------------------------------------------------------------
(* sync_order_from_b2bwave *)

\* the row a conflict would leave if the stored row were replaced by the new one
SyncConflictRow_Replaced(row, customer_name, company_name, order_total, warehouse_1, warehouse_2, t) ==
    [NewOrder(customer_name, company_name, row.order_date, order_total, t)
        EXCEPT !.warehouse_1 = Coalesce(row.warehouse_1, warehouse_1),
               !.warehouse_2 = Coalesce(row.warehouse_2, warehouse_2),
               !.created_at = row.created_at]

\* the row ON CONFLICT (order_id) DO UPDATE leaves
SyncConflictRow(row, customer_name, company_name, order_total, warehouse_1, warehouse_2, t) ==
    [row EXCEPT !.customer_name = customer_name,
                !.company_name = company_name,
                !.order_total = order_total,
                !.warehouse_1 = Coalesce(row.warehouse_1, warehouse_1),
                !.warehouse_2 = Coalesce(row.warehouse_2, warehouse_2),
                !.updated_at = t]

\* the upsert and the event of one order, committed by get_db
SyncOrderWrite(order_data) ==
    LET order_id == order_data.id
        order_total == IF Truthy(order_data.gross_total)
                       THEN Val(order_data.gross_total) ELSE 0
        order_date == IF order_data.submitted_at # NULL
                      THEN Val(order_data.submitted_at) ELSE now
        Row(warehouse_1, warehouse_2) ==
            IF order_id \in DOMAIN orders
            THEN SyncConflictRow(orders[order_id], order_data.customer_name,
                                 order_data.customer_company, Some(order_total),
                                 warehouse_1, warehouse_2, now)
            ELSE [NewOrder(order_data.customer_name, order_data.customer_company,
                           order_date, Some(order_total), now)
                    EXCEPT !.warehouse_1 = warehouse_1, !.warehouse_2 = warehouse_2]
    IN  \E warehouses \in GetWarehousesForSkus(order_data.sku_prefixes) :
            Commit(order_id,
                   Row(WarehouseSlot(warehouses, 1), WarehouseSlot(warehouses, 2)),
                   Event(order_id, "b2bwave_sync", NULL, "api", now))

SyncOrderFromB2bwave(p, order_data) ==
    /\ pc[p] = "idle"
    /\ SyncOrderWrite(order_data)
    /\ Return(p, Resp("sync_order_from_b2bwave", 0, [order_id |-> order_data.id]))

\* POST /b2bwave/sync: orders_list, synced = [], errors = []
SyncFromB2bwaveBegin(p, orders_list) ==
    /\ pc[p] = "idle"
    /\ NoWrite
    /\ pc' = [pc EXCEPT ![p] = "b2b_order"]
    /\ loc' = [loc EXCEPT ![p] =
           [ op |-> "sync_from_b2bwave", orders_list |-> orders_list, i |-> 1,
             synced |-> << >>, errors |-> << >> ]]
    /\ UNCHANGED resp

\* for order_data in orders_list: sync_order_from_b2bwave returns, or the
\* response after the last
SyncFromB2bwaveOrder(p) ==
    LET l == loc[p]
    IN  /\ pc[p] = "b2b_order"
        /\ IF l.i > Len(l.orders_list)
           THEN /\ NoWrite
                /\ Return(p, Resp("sync_from_b2bwave", 200,
                       [ status |-> "ok", synced_count |-> Len(l.synced),
                         error_count |-> Len(l.errors), synced_orders |-> l.synced,
                         errors |-> IF l.errors # << >> THEN Some(l.errors) ELSE NULL ]))
           ELSE /\ SyncOrderWrite(l.orders_list[l.i])
                /\ UNCHANGED <<pc, resp>>
                /\ loc' = [loc EXCEPT ![p].i = l.i + 1,
                                      ![p].synced =
                                          Append(@, [order_id |-> l.orders_list[l.i].id])]

\* a statement of sync_order_from_b2bwave raises: get_db rolls the transaction
\* back and raises again; except appends to errors
SyncFromB2bwaveOrderFails(p) ==
    LET l == loc[p]
    IN  /\ pc[p] = "b2b_order"
        /\ l.i <= Len(l.orders_list)
        /\ NoWrite
        /\ UNCHANGED <<pc, resp>>
        /\ loc' = [loc EXCEPT ![p].i = l.i + 1,
                              ![p].errors =
                                  Append(@, [order_id |-> l.orders_list[l.i].id,
                                             error |-> "exception"])]

-----------------------------------------------------------------------------
(* POST /parse-email *)

\* what parse_b2bwave_email extracts from an order email (NULL: not found), with
\* email_date of the request
ParsedEmails ==
    [ order_id : {NULL} \cup {Some(o) : o \in OrderIds}, customer_name : {Some(AlRoy)},
      company_name : {NULL}, order_total : {NULL, Some(20)},
      sku_prefixes : SkuPrefixLists, email_date : {NULL} ]

\* the early return without an order id; get_warehouses_for_skus; SELECT order_id
\* FROM orders WHERE order_id = %s
ParseEmailSelect(p, parsed) ==
    /\ pc[p] = "idle"
    /\ NoWrite
    /\ IF parsed.order_id = NULL
       THEN Return(p, Resp("parse_email", 200,
                           [status |-> "error",
                            message |-> "Could not extract order ID from email"]))
       ELSE /\ \E warehouses \in GetWarehousesForSkus(parsed.sku_prefixes) :
                 loc' = [loc EXCEPT ![p] =
                     [ op |-> "parse_email", parsed |-> parsed, warehouses |-> warehouses,
                       exists |-> Val(parsed.order_id) \in DOMAIN orders ]]
            /\ pc' = [pc EXCEPT ![p] = "pe_write"]
            /\ UNCHANGED resp

\* UPDATE orders SET customer_name = COALESCE(%s, customer_name), ...,
\*     warehouse_1 = COALESCE(%s, warehouse_1), warehouse_2 = COALESCE(%s, warehouse_2)
ParseEmailUpdateRow(row, parsed, warehouses, t) ==
    [row EXCEPT !.customer_name = IF parsed.customer_name # NULL
                                  THEN Val(parsed.customer_name) ELSE @,
                !.company_name = IF parsed.company_name # NULL
                                 THEN Val(parsed.company_name) ELSE @,
                !.order_total = Coalesce(parsed.order_total, @),
                !.warehouse_1 = Coalesce(WarehouseSlot(warehouses, 1), @),
                !.warehouse_2 = Coalesce(WarehouseSlot(warehouses, 2), @),
                !.updated_at = t]

\* the row INSERT INTO orders leaves
ParseEmailInsertRow(parsed, warehouses, t) ==
    [NewOrder(IF parsed.customer_name # NULL THEN Val(parsed.customer_name) ELSE Empty,
              IF parsed.company_name # NULL THEN Val(parsed.company_name) ELSE Empty,
              IF parsed.email_date # NULL THEN Val(parsed.email_date) ELSE t,
              parsed.order_total, t)
       EXCEPT !.warehouse_1 = WarehouseSlot(warehouses, 1),
              !.warehouse_2 = WarehouseSlot(warehouses, 2)]

\* the handler whose INSERT meets no primary key: it replaces the stored row
ParseEmailWrite_NoKey(p) ==
    LET l == loc[p]
        order_id == Val(l.parsed.order_id)
    IN  /\ pc[p] = "pe_write"
        /\ IF l.exists
           THEN /\ order_id \in DOMAIN orders
                /\ now < MaxTime
                /\ orders' = [orders EXCEPT ![order_id] =
                                  ParseEmailUpdateRow(@, l.parsed, l.warehouses, now)]
                /\ now' = now + 1
                /\ UNCHANGED <<order_events, order_alerts, order_line_items, warehouse_mapping,
                               access_token, token_expires>>
                /\ Return(p, Resp("parse_email", 200,
                                  [status |-> "updated", message |-> "Order updated"]))
           ELSE /\ Commit(order_id, ParseEmailInsertRow(l.parsed, l.warehouses, now),
                          Event(order_id, "order_created", NULL, "email_parse", now))
                /\ Return(p, Resp("parse_email", 200,
                                  [status |-> "created", message |-> "Order created"]))

\* if exists: the UPDATE (no event); else: the INSERT and its order_created
\* event; the commit of get_db.  An INSERT for an order_id stored since the
\* SELECT violates the primary key: get_db rolls back and the request ends 500
ParseEmailWrite(p) ==
    LET l == loc[p]
        order_id == Val(l.parsed.order_id)
    IN  /\ pc[p] = "pe_write"
        /\ IF l.exists
           THEN /\ order_id \in DOMAIN orders
                /\ now < MaxTime
                /\ orders' = [orders EXCEPT ![order_id] =
                                  ParseEmailUpdateRow(@, l.parsed, l.warehouses, now)]
                /\ now' = now + 1
                /\ UNCHANGED <<order_events, order_alerts, order_line_items, warehouse_mapping,
                               access_token, token_expires>>
                /\ Return(p, Resp("parse_email", 200,
                                  [status |-> "updated", message |-> "Order updated"]))
           ELSE IF order_id \in DOMAIN orders
           THEN /\ NoWrite
                /\ Return(p, Resp("parse_email", 500, [detail |-> "Internal Server Error"]))
           ELSE /\ Commit(order_id, ParseEmailInsertRow(l.parsed, l.warehouses, now),
                          Event(order_id, "order_created", NULL, "email_parse", now))
                /\ Return(p, Resp("parse_email", 200,
                                  [status |-> "created", message |-> "Order created"]))

-----------------------------------------------------------------------------
(* PATCH /orders/{order_id} *)

\* the text of a tracking number typed by a user
UpsTracking == <<"UPS", " ", "1Z12345E0205271688">>

\* JSON bodies as OrderUpdate reads them, for the columns of the model (NULL:
\* the property is left out or null)
OrderUpdates ==
    [ customer_name : {NULL, Some(SalKim)}, company_name : {NULL},
      order_total : {NULL, Some(100)}, tracking : {NULL, Some(UpsTracking)},
      warehouse_1 : {NULL, Some("LOVE")}, warehouse_2 : {NULL} ]

\* for field, value in update.dict(exclude_unset=True).items(): if value is not None
UpdateOrderFields(update) == {f \in DOMAIN update : update[f] # NULL}

\* UPDATE orders SET <field = %s, ...>, updated_at = NOW() WHERE order_id = %s
UpdateOrderRow(row, update, t) ==
    [row EXCEPT !.customer_name = IF update.customer_name # NULL
                                  THEN Val(update.customer_name) ELSE @,
                !.company_name = IF update.company_name # NULL
                                 THEN Val(update.company_name) ELSE @,
                !.order_total = IF update.order_total # NULL THEN update.order_total ELSE @,
                !.tracking = IF update.tracking # NULL THEN update.tracking ELSE @,
                !.warehouse_1 = IF update.warehouse_1 # NULL THEN update.warehouse_1 ELSE @,
                !.warehouse_2 = IF update.warehouse_2 # NULL THEN update.warehouse_2 ELSE @,
                !.updated_at = t]

\* 400 without fields; the UPDATE; 404 when no row matched; no event
UpdateOrder(p, order_id, update) ==
    /\ pc[p] = "idle"
    /\ IF UpdateOrderFields(update) = {}
       THEN /\ NoWrite
            /\ Return(p, Resp("update_order", 400, [detail |-> "No fields to update"]))
       ELSE IF order_id \notin DOMAIN orders
       THEN /\ NoWrite
            /\ Return(p, Resp("update_order", 404, [detail |-> "Order not found"]))
       ELSE /\ now < MaxTime
            /\ orders' = [orders EXCEPT ![order_id] = UpdateOrderRow(@, update, now)]
            /\ now' = now + 1
            /\ UNCHANGED <<order_events, order_alerts, order_line_items, warehouse_mapping,
                           access_token, token_expires>>
            /\ Return(p, Resp("update_order", 200,
                              [status |-> "ok", message |-> "Order updated"]))

-----------------------------------------------------------------------------
(* PATCH /orders/{order_id}/checkpoint *)

\* pydantic keeps the declared fields of the body and gives source its default
CheckpointUpdate(body) ==
    [ checkpoint |-> body.checkpoint,
      source |-> IF body.source = NULL THEN "api" ELSE Val(body.source),
      payment_amount |-> body.payment_amount ]

\* the SET list of an UPDATE that also marks the payment link as sent
CheckpointSetParts_Cascade(row, update, sel, t) ==
    [row EXCEPT ![update.checkpoint] = TRUE,
                ![TimestampField(update.checkpoint)] = Some(t),
                !.payment_link_sent = TRUE,
                !.updated_at = t]

\* the SET list of the UPDATE; sel is what SELECT order_total fetched (NULL: no row,
\* or not selected), wrapped in Some
CheckpointSetParts(row, update, sel, t) ==
    LET c == update.checkpoint
        stamped == [row EXCEPT ![c] = TRUE, ![TimestampField(c)] = Some(t),
                               !.updated_at = t]
        paid == c = "payment_received" /\ Truthy(update.payment_amount)
        amount == Val(update.payment_amount)
        with_amount == IF paid THEN [stamped EXCEPT !.payment_amount = Some(amount)]
                       ELSE stamped
    IN  IF paid /\ sel # NULL /\ Truthy(Val(sel))
        THEN [with_amount EXCEPT !.shipping_cost = Some(amount - Val(Val(sel)))]
        ELSE with_amount

\* the handler takes the payment branch: it selects order_total before the UPDATE
PaymentBranch(update) ==
    update.checkpoint = "payment_received" /\ Truthy(update.payment_amount)

\* the UPDATE and the INSERT with the event of a request logged and committed
\* before the row count is looked at
CheckpointWrite_Logged(p, order_id, update, sel) ==
    /\ now < MaxTime
    /\ now' = now + 1
    /\ order_events' = Append(order_events,
           Event(order_id, update.checkpoint, NULL, update.source, now))
    /\ UNCHANGED <<order_alerts, order_line_items, warehouse_mapping,
                   access_token, token_expires>>
    /\ IF order_id \notin DOMAIN orders
       THEN /\ UNCHANGED orders
            /\ Return(p, Resp("update_checkpoint", 404, [detail |-> "Order not found"]))
       ELSE /\ orders' = [orders EXCEPT ![order_id] =
                              CheckpointSetParts(@, update, sel, now)]
            /\ Return(p, Resp("update_checkpoint", 200,
                              [status |-> "ok", checkpoint |-> update.checkpoint]))

\* UPDATE orders, INSERT INTO order_events, commit; 404 and rollback when no row matched
CheckpointWrite(p, order_id, update, sel) ==
    IF order_id \notin DOMAIN orders
    THEN /\ NoWrite
         /\ Return(p, Resp("update_checkpoint", 404, [detail |-> "Order not found"]))
    ELSE /\ Commit(order_id,
                   CheckpointSetParts(orders[order_id], update, sel, now),
                   Event(order_id, update.checkpoint,
                         IF Truthy(update.payment_amount)
                         THEN [payment_amount |-> update.payment_amount]
                         ELSE NULL,
                         update.source, now))
         /\ Return(p, Resp("update_checkpoint", 200,
                           [status |-> "ok", checkpoint |-> update.checkpoint]))

\* the handler outside the payment branch: the validation, then one UPDATE and
\* one INSERT in one transaction
UpdateCheckpoint(p, order_id, body) ==
    LET update == CheckpointUpdate(body)
    IN  /\ pc[p] = "idle"
        /\ ~PaymentBranch(update)
        /\ IF update.checkpoint \notin Checkpoints
           THEN /\ NoWrite
                /\ Return(p, Resp("update_checkpoint", 400, [detail |-> "Invalid checkpoint"]))
           ELSE CheckpointWrite(p, order_id, update, NULL)

\* the payment branch up to SELECT order_total FROM orders WHERE order_id = %s
UpdateCheckpointSelect(p, order_id, body) ==
    LET update == CheckpointUpdate(body)
    IN  /\ pc[p] = "idle"
        /\ PaymentBranch(update)
        /\ NoWrite
        /\ pc' = [pc EXCEPT ![p] = "uc_update"]
        /\ loc' = [loc EXCEPT ![p] =
               [ op |-> "update_checkpoint", order_id |-> order_id,
                 body |-> body, update |-> update,
                 sel |-> IF order_id \in DOMAIN orders
                         THEN Some(orders[order_id].order_total) ELSE NULL ]]
        /\ UNCHANGED resp

\* the payment branch from the UPDATE on
UpdateCheckpointUpdate(p) ==
    /\ pc[p] = "uc_update"
    /\ CheckpointWrite(p, loc[p].order_id, loc[p].update, loc[p].sel)

-----------------------------------------------------------------------------
(* The order_status view and GET /orders/{order_id} *)

\* the CASE with its arms from the least advanced checkpoint to the most advanced
CurrentStatus_LeastFirst(row) ==
    IF row.payment_link_sent /\ ~row.payment_received THEN "awaiting_payment"
    ELSE IF row.payment_received /\ ~row.sent_to_warehouse THEN "needs_warehouse_order"
    ELSE IF row.sent_to_warehouse /\ ~row.warehouse_confirmed THEN "awaiting_warehouse"
    ELSE IF row.warehouse_confirmed /\ ~row.bol_sent THEN "needs_bol"
    ELSE IF row.bol_sent /\ ~row.is_complete THEN "awaiting_shipment"
    ELSE IF row.is_complete THEN "complete"
    ELSE "needs_payment_link"

\* CASE WHEN is_complete THEN 'complete' WHEN bol_sent AND NOT is_complete THEN
\* ... ELSE 'needs_payment_link' END as current_status
CurrentStatus(row) ==
    IF row.is_complete THEN "complete"
    ELSE IF row.bol_sent /\ ~row.is_complete THEN "awaiting_shipment"
    ELSE IF row.warehouse_confirmed /\ ~row.bol_sent THEN "needs_bol"
    ELSE IF row.sent_to_warehouse /\ ~row.warehouse_confirmed THEN "awaiting_warehouse"
    ELSE IF row.payment_received /\ ~row.sent_to_warehouse THEN "needs_warehouse_order"
    ELSE IF row.payment_link_sent /\ ~row.payment_received THEN "awaiting_payment"
    ELSE "needs_payment_link"

\* SELECT o.*, s.current_status ... FROM orders o JOIN order_status s ...
GetOrder(p, order_id) ==
    /\ pc[p] = "idle"
    /\ NoWrite
    /\ IF order_id \notin DOMAIN orders
       THEN Return(p, Resp("get_order", 404, [detail |-> "Order not found"]))
       ELSE Return(p, Resp("get_order", 200,
                           [ status |-> "ok",
                             order |-> [ order_id |-> order_id,
                                         current_status |-> CurrentStatus(orders[order_id]) ] ]))

-----------------------------------------------------------------------------
(* POST /detect-payment-link *)

\* UPDATE orders SET payment_link_sent = TRUE, payment_link_sent_at = NOW(), ...
DetectPaymentLinkRow(row, t) ==
    [row EXCEPT !.payment_link_sent = TRUE,
                !.payment_link_sent_at = Some(t),
                !.updated_at = t]

\* the handler with AND NOT payment_link_sent left out of the WHERE clause
DetectPaymentLink_NoGuard(p, order_id, email_body) ==
    /\ pc[p] = "idle"
    /\ IF HasSquareLink(email_body)
       THEN IF order_id \in DOMAIN orders
            THEN /\ Commit(order_id, DetectPaymentLinkRow(orders[order_id], now),
                           Event(order_id, "payment_link_sent", NULL, "email_detection", now))
                 /\ Return(p, Resp("detect_payment_link", 200,
                                   [status |-> "ok", updated |-> TRUE, message |-> ""]))
            ELSE /\ NoWrite
                 /\ Return(p, Resp("detect_payment_link", 200,
                                   [status |-> "ok", updated |-> FALSE,
                                    message |-> "Already marked"]))
       ELSE /\ NoWrite
            /\ Return(p, Resp("detect_payment_link", 200,
                              [status |-> "ok", updated |-> FALSE,
                               message |-> "No square link found"]))

\* one transaction: UPDATE ... WHERE order_id = %s AND NOT payment_link_sent,
\* and the event when a row was updated
DetectPaymentLink(p, order_id, email_body) ==
    /\ pc[p] = "idle"
    /\ IF HasSquareLink(email_body)
       THEN IF order_id \in DOMAIN orders /\ ~orders[order_id].payment_link_sent
            THEN /\ Commit(order_id, DetectPaymentLinkRow(orders[order_id], now),
                           Event(order_id, "payment_link_sent", NULL, "email_detection", now))
                 /\ Return(p, Resp("detect_payment_link", 200,
                                   [status |-> "ok", updated |-> TRUE, message |-> ""]))
            ELSE /\ NoWrite
                 /\ Return(p, Resp("detect_payment_link", 200,
                                   [status |-> "ok", updated |-> FALSE,
                                    message |-> "Already marked"]))
       ELSE /\ NoWrite
            /\ Return(p, Resp("detect_payment_link", 200,
                              [status |-> "ok", updated |-> FALSE,
                               message |-> "No square link found"]))

-----------------------------------------------------------------------------
(* gmail_sync.update_order_payment_link_sent *)

\* subjects of the sent emails that carry a payment link
LinkSubjects == {"Payment link for your order"}

\* SELECT payment_link_sent FROM orders WHERE order_id = %s, and the two early returns
UpdateOrderPaymentLinkSentSelect(p, order_id, subject) ==
    /\ pc[p] = "idle"
    /\ NoWrite
    /\ IF order_id \notin DOMAIN orders
       THEN Return(p, Resp("update_order_payment_link_sent", 0, [returned |-> FALSE]))
       ELSE IF orders[order_id].payment_link_sent
       THEN Return(p, Resp("update_order_payment_link_sent", 0, [returned |-> FALSE]))
       ELSE /\ pc' = [pc EXCEPT ![p] = "pls_update"]
            /\ loc' = [loc EXCEPT ![p] =
                   [ op |-> "update_order_payment_link_sent", order_id |-> order_id,
                     subject |-> subject, row |-> orders[order_id].payment_link_sent ]]
            /\ UNCHANGED resp

\* UPDATE orders SET payment_link_sent = TRUE, ... WHERE order_id = %s
PaymentLinkSentRow(row, t) ==
    [row EXCEPT !.payment_link_sent = TRUE,
                !.payment_link_sent_at = Some(t),
                !.updated_at = t]

\* UPDATE, INSERT INTO order_events, conn.commit()
UpdateOrderPaymentLinkSentUpdate(p) ==
    LET order_id == loc[p].order_id
    IN  /\ pc[p] = "pls_update"
        /\ order_id \in DOMAIN orders
        /\ Commit(order_id, PaymentLinkSentRow(orders[order_id], now),
                  Event(order_id, "payment_link_sent", [subject |-> loc[p].subject],
                        "gmail_sync", now))
        /\ Return(p, Resp("update_order_payment_link_sent", 0, [returned |-> TRUE]))

-----------------------------------------------------------------------------
(* Result sets: ORDER BY order_date DESC LIMIT n *)

Min(a, b) == IF a <= b THEN a ELSE b

\* the orderings ORDER BY order_date DESC may return the rows ids in: rows of
\* equal order_date come in any order
OrderByDateDesc(ids) ==
    { list \in [1..Cardinality(ids) -> ids] :
        /\ \A i, j \in 1..Cardinality(ids) : i # j => list[i] # list[j]
        /\ \A i, j \in 1..Cardinality(ids) :
               i < j => orders[list[i]].order_date >= orders[list[j]].order_date }

Limit(list, n) == SubSeq(list, 1, Min(n, Len(list)))

-----------------------------------------------------------------------------
(* POST /detect-payment-received *)

\* LIMIT of the candidate query
DetectLimit == 50

\* subjects: amount is what the pattern '$... payment received' captured (NULL: no
\* match) and payer what 'payment received from (.+)$' captured, stripped (NULL:
\* no match)
NotificationSubjects ==
    [amount : {Some(a) : a \in Amounts}, payer : PayerNames \cup {NULL}]
        \cup {[amount |-> NULL, payer |-> NULL]}

\* pay_first == order_first
FirstNameEqual(customer_name, order_customer_name) ==
    LowerStr(FirstToken(customer_name)) = LowerStr(FirstToken(order_customer_name))

\* the loop over the candidates from the i-th on; matched is the order found so
\* far (NULL: none)
RECURSIVE DetectMatchLoop(_, _, _, _, _)
DetectMatchLoop(list, i, matched, payment_amount, customer_name) ==
    IF i > Len(list) THEN matched
    ELSE LET order == orders[list[i]]
         IN  IF Truthy(order.order_total) /\ payment_amount >= Val(order.order_total)
             THEN IF customer_name # NULL /\ order.customer_name # Empty
                  THEN IF FirstNameEqual(customer_name, order.customer_name)
                       THEN Some(list[i])
                       ELSE DetectMatchLoop(list, i + 1, matched, payment_amount,
                                            customer_name)
                  ELSE DetectMatchLoop(list, i + 1,
                                       IF matched = NULL THEN Some(list[i]) ELSE matched,
                                       payment_amount, customer_name)
             ELSE DetectMatchLoop(list, i + 1, matched, payment_amount, customer_name)

\* WHERE NOT payment_received AND order_total IS NOT NULL
DetectCandidates ==
    {o \in DOMAIN orders : ~orders[o].payment_received /\ orders[o].order_total # NULL}

\* the subject patterns, the candidate query and the matching loop
DetectPaymentReceivedSelect(p, email_subject) ==
    /\ pc[p] = "idle"
    /\ NoWrite
    /\ IF email_subject.amount = NULL
       THEN Return(p, Resp("detect_payment_received", 200,
                           [status |-> "ok", updated |-> FALSE,
                            message |-> "Not a payment notification"]))
       ELSE \E list \in OrderByDateDesc(DetectCandidates) :
              LET payment_amount == Val(email_subject.amount)
                  customer_name == email_subject.payer
                  matched == DetectMatchLoop(Limit(list, DetectLimit), 1, NULL,
                                             payment_amount, customer_name)
              IN  IF matched = NULL
                  THEN Return(p, Resp("detect_payment_received", 200,
                                      [status |-> "ok", updated |-> FALSE,
                                       message |-> "Could not match payment to order",
                                       payment_amount |-> payment_amount,
                                       customer_name |-> customer_name]))
                  ELSE /\ pc' = [pc EXCEPT ![p] = "dpr_update"]
                       /\ loc' = [loc EXCEPT ![p] =
                              [ op |-> "detect_payment_received",
                                order_id |-> Val(matched),
                                order_total |-> orders[Val(matched)].order_total,
                                payment_amount |-> payment_amount,
                                customer_name |-> customer_name ]]
                       /\ UNCHANGED resp

\* UPDATE orders SET payment_received = TRUE, ..., payment_amount = %s, shipping_cost = %s
DetectPaymentReceivedRow(row, payment_amount, shipping_cost, t) ==
    [row EXCEPT !.payment_received = TRUE,
                !.payment_received_at = Some(t),
                !.payment_amount = Some(payment_amount),
                !.shipping_cost = shipping_cost,
                !.updated_at = t]

\* UPDATE, INSERT INTO order_events, commit
DetectPaymentReceivedUpdate(p) ==
    LET order_id == loc[p].order_id
        payment_amount == loc[p].payment_amount
        shipping_cost == IF Truthy(loc[p].order_total)
                         THEN Some(payment_amount - Val(loc[p].order_total)) ELSE NULL
    IN  /\ pc[p] = "dpr_update"
        /\ order_id \in DOMAIN orders
        /\ Commit(order_id,
                  DetectPaymentReceivedRow(orders[order_id], payment_amount, shipping_cost, now),
                  Event(order_id, "payment_received",
                        [payment_amount |-> payment_amount, shipping_cost |-> shipping_cost,
                         customer_name |-> loc[p].customer_name],
                        "square_notification", now))
        /\ Return(p, Resp("detect_payment_received", 200,
                          [status |-> "ok", updated |-> TRUE, order_id |-> order_id,
                           payment_amount |-> payment_amount,
                           shipping_cost |-> shipping_cost]))

-----------------------------------------------------------------------------
(* gmail_sync.match_payment_to_order *)

\* LIMIT of the candidate query
MatchLimit == 5

\* amount >= order_total * 0.95, in hundredths
MatchPercent == 95

\* Square payment emails: run_gmail_sync calls match_payment_to_order with the
\* amount and the payer it extracted from the subject, when both are truthy
PaymentEmails == [amount : Amounts, payer : PayerNames]

\* LOWER(customer_name) LIKE LOWER(%s) OR LOWER(company_name) LIKE LOWER(%s),
\* with '%' + customer_name.split()[0] + '%'
NameLike(row, customer_name) ==
    LET first == LowerStr(FirstToken(customer_name))
    IN  \/ Contains(LowerStr(row.customer_name), first)
        \/ Contains(LowerStr(row.company_name), first)

MatchCandidates(customer_name) ==
    {o \in DOMAIN orders : ~orders[o].payment_received /\ NameLike(orders[o], customer_name)}

\* the loop with the test of the amount left out
AmountCovers_Always(amount, row) == TRUE

\* amount >= float(order['order_total'] or 0) * 0.95
AmountCovers(amount, row) ==
    LET order_total == IF Truthy(row.order_total) THEN Val(row.order_total) ELSE 0
    IN  amount * 100 >= order_total * MatchPercent

\* the first candidate from the i-th on that the amount covers (NULL: none)
RECURSIVE MatchLoop(_, _, _)
MatchLoop(list, i, amount) ==
    IF i > Len(list) THEN NULL
    ELSE IF AmountCovers(amount, orders[list[i]]) THEN Some(list[i])
    ELSE MatchLoop(list, i + 1, amount)

\* the candidate query and the loop up to the first match
MatchPaymentToOrderSelect(p, email) ==
    /\ pc[p] = "idle"
    /\ NoWrite
    /\ \E list \in OrderByDateDesc(MatchCandidates(email.payer)) :
         LET matched == MatchLoop(Limit(list, MatchLimit), 1, email.amount)
         IN  IF matched = NULL
             THEN Return(p, Resp("match_payment_to_order", 0,
                                 [returned |-> FALSE]))
             ELSE /\ pc' = [pc EXCEPT ![p] = "match_update"]
                  /\ loc' = [loc EXCEPT ![p] =
                         [ op |-> "match_payment_to_order", order_id |-> Val(matched),
                           email |-> email ]]
                  /\ UNCHANGED resp

\* the UPDATE with the amount alone: SET payment_amount = %s, updated_at = NOW()
MatchPaymentRow_AmountOnly(row, amount, t) ==
    [row EXCEPT !.payment_amount = Some(amount),
                !.updated_at = t]

\* UPDATE orders SET payment_received = TRUE, ..., payment_amount = %s
MatchPaymentRow(row, amount, t) ==
    [row EXCEPT !.payment_received = TRUE,
                !.payment_received_at = Some(t),
                !.payment_amount = Some(amount),
                !.updated_at = t]

\* the function with conn.commit() moved before the INSERT, which then fails
MatchPaymentToOrderUpdate_NoEvent(p) ==
    LET order_id == loc[p].order_id
        email == loc[p].email
    IN  /\ pc[p] = "match_update"
        /\ order_id \in DOMAIN orders
        /\ now < MaxTime
        /\ orders' = [orders EXCEPT ![order_id] = [@ EXCEPT !.payment_received = TRUE,
                                                           !.payment_received_at = Some(now),
                                                           !.payment_amount = Some(email.amount),
                                                           !.updated_at = now]]
        /\ now' = now + 1
        /\ UNCHANGED <<order_events, order_alerts, order_line_items, warehouse_mapping,
                       access_token, token_expires>>
        /\ Return(p, Resp("match_payment_to_order", 0, [returned |-> FALSE]))

\* UPDATE, INSERT INTO order_events, conn.commit()
MatchPaymentToOrderUpdate(p) ==
    LET order_id == loc[p].order_id
        email == loc[p].email
    IN  /\ pc[p] = "match_update"
        /\ order_id \in DOMAIN orders
        /\ Commit(order_id, MatchPaymentRow(orders[order_id], email.amount, now),
                  Event(order_id, "payment_received",
                        [amount |-> email.amount, customer |-> email.payer],
                        "gmail_sync", now))
        /\ Return(p, Resp("match_payment_to_order", 0,
                          [returned |-> TRUE]))

-----------------------------------------------------------------------------
(* square_sync.extract_order_ids *)

\* \d
IsDigit(ch) == ch \in {"0", "1", "2", "3", "4", "5", "6", "7", "8", "9"}

\* \w
IsWordChar(ch) ==
    \/ IsDigit(ch)
    \/ ch = "_"
    \/ Lower(ch) \in {"a", "b", "c", "d", "e", "f", "g", "h", "i", "j", "k", "l", "m",
                      "n", "o", "p", "q", "r", "s", "t", "u", "v", "w", "x", "y", "z"}

\* the number of digits of s in a row from index i on
RECURSIVE DigitRun(_, _)
DigitRun(s, i) ==
    IF i > Len(s) THEN 0
    ELSE IF IsDigit(s[i]) THEN 1 + DigitRun(s, i + 1)
    ELSE 0

\* \b between s[i - 1] and s[i], where s[i] or s[i - 1] is a digit
WordBoundaryBefore(s, i) == i = 1 \/ ~IsWordChar(s[i - 1])

WordBoundaryAfter(s, e) == e = Len(s) \/ ~IsWordChar(s[e + 1])

\* re.match(r'^(\d{4,5})', description): the groups found, none or one
StartMatch(description) ==
    LET n == DigitRun(description, 1)
    IN  IF n >= 5 THEN <<SubSeq(description, 1, 5)>>
        ELSE IF n = 4 THEN <<SubSeq(description, 1, 4)>>
        ELSE << >>

\* the length of the match of \b(5\d{3,4})\b (five) or \b(\d{4,5})\b at index
\* i, 0 if none: the longer repetition is tried first
NumberMatchLen(s, i, five) ==
    LET n == DigitRun(s, i)
    IN  IF ~WordBoundaryBefore(s, i) \/ n < 4 \/ (five /\ s[i] # "5") THEN 0
        ELSE IF n >= 5 /\ WordBoundaryAfter(s, i + 4) THEN 5
        ELSE IF WordBoundaryAfter(s, i + 3) THEN 4
        ELSE 0

\* re.findall of the pattern, from index i on: the matches left to right, the
\* search going on after each match
RECURSIVE FindAllNumbers(_, _, _)
FindAllNumbers(s, i, five) ==
    IF i > Len(s) THEN << >>
    ELSE LET m == NumberMatchLen(s, i, five)
         IN  IF m > 0
             THEN <<SubSeq(s, i, i + m - 1)>> \o FindAllNumbers(s, i + m, five)
             ELSE FindAllNumbers(s, i + 1, five)

\* for oid in order_ids: if oid not in seen: seen.add(oid); unique_ids.append(oid)
RECURSIVE UniqueLoop(_, _, _, _)
UniqueLoop(order_ids, i, seen, unique_ids) ==
    IF i > Len(order_ids) THEN unique_ids
    ELSE IF order_ids[i] \in seen
    THEN UniqueLoop(order_ids, i + 1, seen, unique_ids)
    ELSE UniqueLoop(order_ids, i + 1, seen \cup {order_ids[i]},
                    Append(unique_ids, order_ids[i]))

\* the list returned as collected
UniqueIds_Kept(order_ids) == order_ids

UniqueIds(order_ids) == UniqueLoop(order_ids, 1, {}, << >>)

ExtractOrderIds(description) ==
    IF description = Empty THEN << >>
    ELSE LET typical == StartMatch(description) \o FindAllNumbers(description, 1, TRUE)
             order_ids == IF typical = << >>
                          THEN FindAllNumbers(description, 1, FALSE)
                          ELSE typical
         IN  UniqueIds(order_ids)

\* the parts payment descriptions are made of
DescriptionParts ==
    { <<"5", "3", "1", "7">>, <<"5", "3", "1", "9">>, <<"5", "1", "8", "4">>,
      <<"4", "3", "2", "1">>, <<"5", "3", "1", "7", "9", "0">>,
      <<" ">>, <<" ", "&", " ">>, <<"-">>, <<"x">>,
      <<" ", "G", "&", "B", " ", "C", "F", "C">>,
      <<" ", "B", "r", "o", "k", "e", " ", "a", "n", "d", " ", "P", "o", "o", "r",
        " ", "C", "F", "C">> }

MaxParts == 4

RECURSIVE DescriptionsOf(_)
DescriptionsOf(n) ==
    IF n = 0 THEN {Empty}
    ELSE LET shorter == DescriptionsOf(n - 1)
         IN  shorter \cup {d \o part : d \in shorter, part \in DescriptionParts}

Descriptions == DescriptionsOf(MaxParts)

\* a call of extract_order_ids, as parse_payment_for_matching makes it
ExtractOrderIdsCall(p) ==
    /\ pc[p] = "extract_order_ids"
    /\ NoWrite
    /\ Return(p, Resp("extract_order_ids", 0,
                      [description |-> loc[p].description,
                       order_ids |-> ExtractOrderIds(loc[p].description)]))

-----------------------------------------------------------------------------
(* gmail_sync.extract_order_id and the order id of parse_b2bwave_email *)

\* \s
IsSpace(ch) == ch \in {" ", "\n", "\t"}

\* the index of the first character at or after i that is not white space
RECURSIVE SkipSpaces(_, _)
SkipSpaces(s, i) ==
    IF i > Len(s) THEN Len(s) + 1
    ELSE IF IsSpace(s[i]) THEN SkipSpaces(s, i + 1)
    ELSE i

\* s holds word at index i
HasAt(s, i, word) ==
    /\ i + Len(word) - 1 <= Len(s)
    /\ SubSeq(s, i, i + Len(word) - 1) = word

\* (\d{4,5})\b at index k: the length matched, the longer tried first, 0 if none
IdMatchLen(s, k) ==
    LET n == DigitRun(s, k)
    IN  IF n >= 5 /\ WordBoundaryAfter(s, k + 4) THEN 5
        ELSE IF n >= 4 /\ WordBoundaryAfter(s, k + 3) THEN 4
        ELSE 0

\* (?:order\s*#?\s*|#)(\d{4,5})\b with re.IGNO<<"R", "e", ":", " ">>CASE, tried at index i: the
\* index of the digits and their number, 0 if no match
LabelledMatchAt(text, i) ==
    IF HasAt(LowerStr(text), i, <<"o", "r", "d", "e", "r">>)
    THEN LET h == SkipSpaces(text, i + 5)
             k == IF h <= Len(text) /\ text[h] = "#" THEN SkipSpaces(text, h + 1) ELSE h
         IN  [at |-> k, len |-> IdMatchLen(text, k)]
    ELSE IF text[i] = "#"
    THEN [at |-> i + 1, len |-> IdMatchLen(text, i + 1)]
    ELSE [at |-> i, len |-> 0]

\* re.search of the labelled pattern from index i on: the group, or None
RECURSIVE LabelledSearch(_, _)
LabelledSearch(text, i) ==
    IF i > Len(text) THEN NULL
    ELSE LET m == LabelledMatchAt(text, i)
         IN  IF m.len > 0
             THEN Some(SubSeq(text, m.at, m.at + m.len - 1))
             ELSE LabelledSearch(text, i + 1)

ExtractOrderId(text) ==
    LET match == LabelledSearch(text, 1)
        standalone == FindAllNumbers(text, 1, FALSE)
    IN  IF match # NULL THEN match
        ELSE IF standalone # << >> THEN Some(standalone[1])
        ELSE NULL

\* re.search(r'\(#(\d{4,7})\)', subject) from index i on: the group, or None
RECURSIVE SubjectSearch(_, _)
SubjectSearch(subject, i) ==
    IF i > Len(subject) THEN NULL
    ELSE LET n == DigitRun(subject, i + 2)
         IN  IF /\ HasAt(subject, i, <<"(", "#">>)
                /\ n >= 4 /\ n <= 7
                /\ HasAt(subject, i + 2 + n, <<")">>)
             THEN Some(SubSeq(subject, i + 2, i + 1 + n))
             ELSE SubjectSearch(subject, i + 1)

\* re.search(r'Order ID:\s*(\d{4,7})', clean_body) from index i on
RECURSIVE OrderIdLineSearch(_, _)
OrderIdLineSearch(body, i) ==
    IF i > Len(body) THEN NULL
    ELSE LET k == SkipSpaces(body, i + 9)
             n == DigitRun(body, k)
         IN  IF HasAt(body, i, <<"O", "r", "d", "e", "r", " ", "I", "D", ":">>) /\ n >= 4
             THEN Some(SubSeq(body, k, k + (IF n > 7 THEN 7 ELSE n) - 1))
             ELSE OrderIdLineSearch(body, i + 1)

\* result['order_id'] of parse_b2bwave_email
ParseB2bwaveEmailOrderId(body, subject) ==
    LET subject_match == SubjectSearch(subject, 1)
    IN  IF subject_match # NULL THEN subject_match
        ELSE OrderIdLineSearch(body, 1)

\* texts that name an order: what comes before the reference, the reference
\* with the identifier it is written for, and what comes after it
TextHeads == {Empty, <<"R", "e", "f", " ", "4", "3", "2", "1", " ">>, <<"R", "e", ":", " ">>, <<"P", "O", " ", "2", "0", "4", "7", "1", ",", " ">>}

TextReferences ==
    { [text |-> <<"o", "r", "d", "e", "r", " ", "#", "5", "3", "0", "7">>, id |-> Some(<<"5", "3", "0", "7">>)],
      [text |-> <<"#", "5", "3", "0", "7">>, id |-> Some(<<"5", "3", "0", "7">>)],
      [text |-> <<"(", "#", "5", "2", "6", "1", ")">>, id |-> Some(<<"5", "2", "6", "1">>)],
      [text |-> <<"(", "#", "5", "2", "6", "1", "0", "0", ")">>, id |-> Some(<<"5", "2", "6", "1", "0", "0">>)],
      [text |-> Empty, id |-> NULL] }

TextTails == {Empty, <<" ", "s", "h", "i", "p", "p", "e", "d">>, <<" ", "T", "o", "t", "a", "l", ":", " ", "$", "1", "2", "0">>}

OrderTexts ==
    { [text |-> h \o r.text \o t, id |-> r.id] :
          h \in TextHeads, r \in TextReferences, t \in TextTails }

\* extract_order_id(email['subject'] + ' ' + email['body']) of run_gmail_sync
ExtractOrderIdCall(p) ==
    /\ pc[p] = "extract_order_id"
    /\ NoWrite
    /\ Return(p, Resp("extract_order_id", 0,
                      [text |-> loc[p].text, id |-> loc[p].id,
                       order_id |-> ExtractOrderId(loc[p].text)]))

\* parse_b2bwave_email(request.email_body, request.email_subject) of parse_email, the text
\* being the subject
ParseB2bwaveEmailCall(p) ==
    /\ pc[p] = "extract_order_id"
    /\ NoWrite
    /\ Return(p, Resp("parse_b2bwave_email", 0,
                      [text |-> loc[p].text, id |-> loc[p].id,
                       order_id |-> ParseB2bwaveEmailOrderId(Empty, loc[p].text)]))

-----------------------------------------------------------------------------
(* square_sync.run_square_sync *)

\* completed payments as parse_payment_for_matching returns them: order_ids is
\* what extract_order_ids found in the description, without duplicates
SquarePayments ==
    { [payment_id |-> "sqA", amount |-> 120, order_ids |-> <<"5301">>],
      [payment_id |-> "sqB", amount |-> 10, order_ids |-> <<"5302">>],
      [payment_id |-> "sqC", amount |-> 200, order_ids |-> <<"5301", "5302">>],
      [payment_id |-> "sqD", amount |-> 50, order_ids |-> << >>] }

\* what get_recent_payments may return: the payments of the window, newest first
SquarePaymentLists ==
    {<<x>> : x \in SquarePayments}
        \cup {l \in {<<x, y>> : x \in SquarePayments, y \in SquarePayments} : l[1] # l[2]}

SquareResults(payments_found, orders_updated, payments_unmatched, errors) ==
    [ status |-> "ok", payments_found |-> payments_found,
      orders_updated |-> orders_updated,
      payments_unmatched |-> payments_unmatched, errors |-> errors ]

\* get_recent_payments, and the empty results
SquareSyncBegin(p, payments) ==
    /\ pc[p] = "idle"
    /\ NoWrite
    /\ pc' = [pc EXCEPT ![p] = "sq_payment"]
    /\ loc' = [loc EXCEPT ![p] =
           [ op |-> "run_square_sync", payments |-> payments, i |-> 1, j |-> 1,
             order |-> NULL,
             results |-> SquareResults(Len(payments), << >>, << >>, << >>) ]]
    /\ UNCHANGED resp

\* for payment in payments: the next payment, or the return after the last
SquareSyncPayment(p) ==
    LET l == loc[p]
        parsed == l.payments[l.i]
    IN  /\ pc[p] = "sq_payment"
        /\ NoWrite
        /\ IF l.i > Len(l.payments)
           THEN Return(p, Resp("run_square_sync", 0, l.results))
           ELSE /\ UNCHANGED resp
                /\ IF parsed.order_ids = << >>
                   THEN /\ pc' = pc
                        /\ loc' = [loc EXCEPT ![p].i = l.i + 1,
                                              ![p].results.payments_unmatched =
                                                  Append(@, [payment_id |-> parsed.payment_id,
                                                             amount |-> parsed.amount,
                                                             reason |-> "no_order_ids_in_description"])]
                   ELSE /\ pc' = [pc EXCEPT ![p] = "sq_select"]
                        /\ loc' = [loc EXCEPT ![p].j = 1]

\* the locals after the order_ids[j] of payments[i] is done with
SquareAdvance(l) ==
    IF l.j < Len(l.payments[l.i].order_ids)
    THEN [l EXCEPT !.j = l.j + 1, !.order = NULL]
    ELSE [l EXCEPT !.i = l.i + 1, !.j = 1, !.order = NULL]

SquareAdvancePc(l) ==
    IF l.j < Len(l.payments[l.i].order_ids) THEN "sq_select" ELSE "sq_payment"

\* the step with the test of order["payment_received"] left out
SquareSyncSelect_NoSkip(p) ==
    LET l == loc[p]
        order_id == l.payments[l.i].order_ids[l.j]
    IN  /\ pc[p] = "sq_select"
        /\ NoWrite
        /\ UNCHANGED resp
        /\ IF order_id \notin DOMAIN orders
           THEN /\ pc' = [pc EXCEPT ![p] = SquareAdvancePc(l)]
                /\ loc' = [loc EXCEPT ![p] =
                       SquareAdvance([l EXCEPT !.results.errors =
                           Append(@, [order_id |-> order_id, error |-> "order_not_found"])])]
           ELSE /\ pc' = [pc EXCEPT ![p] = "sq_update"]
                /\ loc' = [loc EXCEPT ![p].order =
                       Some([ order_total |-> orders[order_id].order_total,
                              payment_received |-> orders[order_id].payment_received ])]

\* SELECT order_id, order_total, payment_received, customer_name ... WHERE order_id = %s
SquareSyncSelect(p) ==
    LET l == loc[p]
        order_id == l.payments[l.i].order_ids[l.j]
    IN  /\ pc[p] = "sq_select"
        /\ NoWrite
        /\ UNCHANGED resp
        /\ IF order_id \notin DOMAIN orders
           THEN /\ pc' = [pc EXCEPT ![p] = SquareAdvancePc(l)]
                /\ loc' = [loc EXCEPT ![p] =
                       SquareAdvance([l EXCEPT !.results.errors =
                           Append(@, [order_id |-> order_id, error |-> "order_not_found"])])]
           ELSE IF orders[order_id].payment_received
           THEN /\ pc' = [pc EXCEPT ![p] = SquareAdvancePc(l)]
                /\ loc' = [loc EXCEPT ![p] = SquareAdvance(l)]
           ELSE /\ pc' = [pc EXCEPT ![p] = "sq_update"]
                /\ loc' = [loc EXCEPT ![p].order =
                       Some([ order_total |-> orders[order_id].order_total,
                              payment_received |-> orders[order_id].payment_received ])]

\* the calculation with len(order_ids) == 1 left out of the condition
SquareShippingCost_AnyCount(parsed, order) ==
    LET order_total == IF Truthy(order.order_total) THEN Val(order.order_total) ELSE 0
    IN  IF order_total > 0 /\ parsed.amount - order_total >= 0
        THEN Some(parsed.amount - order_total)
        ELSE NULL

\* shipping_cost of the payment for the order selected
SquareShippingCost(parsed, order) ==
    LET order_total == IF Truthy(order.order_total) THEN Val(order.order_total) ELSE 0
    IN  IF Len(parsed.order_ids) = 1 /\ order_total > 0 /\ parsed.amount - order_total >= 0
        THEN Some(parsed.amount - order_total)
        ELSE NULL

\* the UPDATE with payment_received_at = NOW() left out of it
SquarePaidRow_NoStamp(row, parsed, shipping_cost, t) ==
    [row EXCEPT !.payment_received = TRUE,
                !.payment_amount = IF Len(parsed.order_ids) = 1
                                   THEN Some(parsed.amount) ELSE NULL,
                !.shipping_cost = IF shipping_cost # NULL THEN shipping_cost ELSE @,
                !.updated_at = t]

\* UPDATE orders SET payment_received = TRUE, ..., payment_amount = %s,
\* shipping_cost = COALESCE(%s, shipping_cost)
SquarePaidRow(row, parsed, shipping_cost, t) ==
    [row EXCEPT !.payment_received = TRUE,
                !.payment_received_at = Some(t),
                !.payment_amount = IF Len(parsed.order_ids) = 1
                                   THEN Some(parsed.amount) ELSE NULL,
                !.shipping_cost = IF shipping_cost # NULL THEN shipping_cost ELSE @,
                !.updated_at = t]

\* UPDATE, INSERT INTO order_events, conn.commit(), results["orders_updated"]
SquareSyncUpdate(p) ==
    LET l == loc[p]
        parsed == l.payments[l.i]
        order_id == parsed.order_ids[l.j]
        shipping_cost == SquareShippingCost(parsed, Val(l.order))
    IN  /\ pc[p] = "sq_update"
        /\ order_id \in DOMAIN orders
        /\ Commit(order_id, SquarePaidRow(orders[order_id], parsed, shipping_cost, now),
                  Event(order_id, "payment_received",
                        [ square_payment_id |-> parsed.payment_id,
                          payment_amount |-> parsed.amount,
                          shipping_cost |-> shipping_cost,
                          multi_order_payment |-> Len(parsed.order_ids) > 1 ],
                        "square_api", now))
        /\ UNCHANGED resp
        /\ pc' = [pc EXCEPT ![p] = SquareAdvancePc(l)]
        /\ loc' = [loc EXCEPT ![p] =
               SquareAdvance([l EXCEPT !.results.orders_updated =
                   Append(@, [ order_id |-> order_id, payment_amount |-> parsed.amount,
                               shipping_cost |-> shipping_cost,
                               square_payment_id |-> parsed.payment_id ])])]

-----------------------------------------------------------------------------
Init ==
    /\ orders = << >>
    /\ order_events = << >>
    /\ order_alerts = << >>
    /\ order_line_items = << >>
    /\ warehouse_mapping = WarehouseMapping
    /\ access_token = NULL
    /\ token_expires = NULL
    /\ now = 1
    /\ pc = [p \in Procs |-> "idle"]
    /\ loc = [p \in Procs |-> NoLocals]
    /\ resp = [p \in Procs |-> NoResp]

-----------------------------------------------------------------------------
(* Orders stored by earlier requests, at time 0 *)

\* order_total as stored: NULL by /parse-email for an email that names no total,
\* 0 by the B2BWave sync for a payload without gross_total
StoredTotals == {NULL, Some(0), Some(20), Some(100)}

\* the rows the two INSERT INTO orders statements leave
StoredRows ==
    { NewOrder(customer_name, company_name, Val(order_date), order_total, 0) :
        customer_name \in CustomerNames, company_name \in CompanyNames,
        order_date \in SubmittedDates, order_total \in StoredTotals }

\* the event written in the transaction of the INSERT
StoredEvent(order_id, row) ==
    IF row.order_total = NULL
    THEN Event(order_id, "order_created", NULL, "email_parse", 0)
    ELSE Event(order_id, "b2bwave_sync", NULL, "api", 0)

OrderIdList == <<"5301", "5302">>

\* the log of a table of stored orders
StoredEvents(table) ==
    LET Stored(order_id) == order_id \in DOMAIN table
        ids == SelectSeq(OrderIdList, Stored)
    IN  [i \in 1..Len(ids) |-> StoredEvent(ids[i], table[ids[i]])]

\* the database holds the orders of one of the id sets, with rows of the given
\* set, and no request is running
InitStored(idsets, rows) ==
    /\ \E ids \in idsets : orders \in [ids -> rows]
    /\ order_events = StoredEvents(orders)
    /\ order_alerts = << >>
    /\ order_line_items = << >>
    /\ warehouse_mapping = WarehouseMapping
    /\ access_token = NULL
    /\ token_expires = NULL
    /\ now = 1
    /\ pc = [p \in Procs |-> "idle"]
    /\ loc = [p \in Procs |-> NoLocals]
    /\ resp = [p \in Procs |-> NoResp]

\* the failure step with the UPDATE committed before the INSERT raised
SquareSyncUpdateFails_Kept(p) ==
    LET l == loc[p]
        parsed == l.payments[l.i]
        order_id == parsed.order_ids[l.j]
        shipping_cost == SquareShippingCost(parsed, Val(l.order))
    IN  /\ pc[p] = "sq_update"
        /\ order_id \in DOMAIN orders
        /\ now < MaxTime
        /\ orders' = [orders EXCEPT ![order_id] =
                          SquarePaidRow(orders[order_id], parsed, shipping_cost, now)]
        /\ now' = now + 1
        /\ UNCHANGED <<order_events, order_alerts, order_line_items, warehouse_mapping,
                       access_token, token_expires, resp>>
        /\ pc' = [pc EXCEPT ![p] = SquareAdvancePc(l)]
        /\ loc' = [loc EXCEPT ![p] =
               SquareAdvance([l EXCEPT !.results.errors =
                   Append(@, [order_id |-> order_id, error |-> "exception"])])]

\* the UPDATE or the INSERT raises: except appends to results["errors"] and
\* conn.rollback() undoes the statements of this order
SquareSyncUpdateFails(p) ==
    LET l == loc[p]
        order_id == l.payments[l.i].order_ids[l.j]
    IN  /\ pc[p] = "sq_update"
        /\ NoWrite
        /\ UNCHANGED resp
        /\ pc' = [pc EXCEPT ![p] = SquareAdvancePc(l)]
        /\ loc' = [loc EXCEPT ![p] =
               SquareAdvance([l EXCEPT !.results.errors =
                   Append(@, [order_id |-> order_id, error |-> "exception"])])]

-----------------------------------------------------------------------------
(* The payment-link detectors over stored orders *)

LinkRows ==
    {r \in StoredRows : /\ r.customer_name = AlRoy /\ r.company_name = Empty
                        /\ r.order_total = Some(20)}

InitLink == InitStored(SUBSET OrderIds, LinkRows)

NextLink ==
    \E p \in {"p1"} :
        \/ \E order_id \in OrderIds, email_body \in EmailBodies :
               DetectPaymentLink(p, order_id, email_body)
        \/ \E order_id \in OrderIds, subject \in LinkSubjects :
               UpdateOrderPaymentLinkSentSelect(p, order_id, subject)
        \/ UpdateOrderPaymentLinkSentUpdate(p)

SpecLink == InitLink /\ [][NextLink]_vars

-----------------------------------------------------------------------------
(* The Square payment sync over stored orders *)

SquareRows ==
    {r \in StoredRows : /\ r.customer_name = AlRoy /\ r.company_name = Empty
                        /\ r.order_date = 1}

InitSquare == InitStored(SUBSET OrderIds, SquareRows)

NextSquare ==
    \E p \in {"p1"} :
        \/ \E payments \in SquarePaymentLists : SquareSyncBegin(p, payments)
        \/ SquareSyncPayment(p)
        \/ SquareSyncSelect(p)
        \/ SquareSyncUpdate(p)

SpecSquare == InitSquare /\ [][NextSquare]_vars

-----------------------------------------------------------------------------
(* The heuristic payment matchers over stored orders *)

\* a company name is given with the customer name that does not hold it
PayRows == {r \in StoredRows : r.company_name = KimCo => r.customer_name = AlRoy}

InitPay == InitStored(SUBSET OrderIds, PayRows)

NextPay ==
    \E p \in {"p1"} :
        \/ \E email \in PaymentEmails : MatchPaymentToOrderSelect(p, email)
        \/ MatchPaymentToOrderUpdate(p)
        \/ \E email_subject \in NotificationSubjects :
               DetectPaymentReceivedSelect(p, email_subject)
        \/ DetectPaymentReceivedUpdate(p)

SpecPay == InitPay /\ [][NextPay]_vars

-----------------------------------------------------------------------------
(* PATCH /orders/{order_id}/checkpoint over stored orders *)

CheckpointRows ==
    {r \in StoredRows : /\ r.customer_name = AlRoy /\ r.company_name = Empty
                        /\ r.order_date = 1 /\ r.order_total \in {Some(0), Some(20)}}

InitCheckpoint == InitStored(SUBSET OrderIds, CheckpointRows)

\* request bodies: a payment_amount comes with payment_received
CheckpointRequests ==
    {b \in CheckpointBodies : b.payment_amount # NULL => b.checkpoint = "payment_received"}

NextCheckpoint ==
    \E p \in {"p1"} :
        \/ \E order_id \in OrderIds, body \in CheckpointRequests :
               UpdateCheckpoint(p, order_id, body)
        \/ \E order_id \in OrderIds, body \in CheckpointRequests :
               UpdateCheckpointSelect(p, order_id, body)
        \/ UpdateCheckpointUpdate(p)

SpecCheckpoint == InitCheckpoint /\ [][NextCheckpoint]_vars

\* the same requests over at most one stored order: 5302 is never stored
RefusalRows == {r \in CheckpointRows : r.order_total = Some(20)}

InitRefusal == InitStored({{}, {"5301"}}, RefusalRows)

RefusalRequests ==
    {b \in CheckpointRequests :
        b.checkpoint \in {"payment_received", "bol_sent", "shipped"} /\ ~b.value}

NextRefusal ==
    \E p \in {"p1"} :
        \/ \E order_id \in OrderIds, body \in RefusalRequests :
               UpdateCheckpoint(p, order_id, body)
        \/ \E order_id \in OrderIds, body \in RefusalRequests :
               UpdateCheckpointSelect(p, order_id, body)
        \/ UpdateCheckpointUpdate(p)

SpecRefusal == InitRefusal /\ [][NextRefusal]_vars

-----------------------------------------------------------------------------
(* Checkpoint requests for a stored order with any flags set, and its status *)

\* the time of the earlier request that set valid_checkpoints[i]
FlagTime(i) == i - (Len(valid_checkpoints) + 1)

\* the order, stored before all requests
StatusBaseRow ==
    NewOrder(AlRoy, Empty, FlagTime(0), Some(20), FlagTime(0))

\* the row after the requests for the checkpoints of S among the first i
RECURSIVE StatusRowUpTo(_, _)
StatusRowUpTo(i, S) ==
    IF i = 0 THEN StatusBaseRow
    ELSE IF valid_checkpoints[i] \in S
    THEN CheckpointSetParts(StatusRowUpTo(i - 1, S),
             CheckpointUpdate([checkpoint |-> valid_checkpoints[i], source |-> NULL,
                               payment_amount |-> NULL]),
             NULL, FlagTime(i))
    ELSE StatusRowUpTo(i - 1, S)

StatusRow(S) == StatusRowUpTo(Len(valid_checkpoints), S)

\* the log of the order: its insert, then the requests
StatusEvents(order_id, S) ==
    LET Set(c) == c \in S
        cs == SelectSeq(valid_checkpoints, Set)
        Index(c) == CHOOSE i \in 1..Len(valid_checkpoints) : valid_checkpoints[i] = c
    IN  <<Event(order_id, "b2bwave_sync", NULL, "api", FlagTime(0))>>
        \o [k \in 1..Len(cs) |-> Event(order_id, cs[k], NULL, "api", FlagTime(Index(cs[k])))]

InitStatus ==
    /\ \E S \in SUBSET Checkpoints :
         /\ orders = [o \in {"5301"} |-> StatusRow(S)]
         /\ order_events = StatusEvents("5301", S)
    /\ order_alerts = << >>
    /\ order_line_items = << >>
    /\ warehouse_mapping = WarehouseMapping
    /\ access_token = NULL
    /\ token_expires = NULL
    /\ now = 1
    /\ pc = [p \in Procs |-> "idle"]
    /\ loc = [p \in Procs |-> NoLocals]
    /\ resp = [p \in Procs |-> NoResp]

\* the requests: those that ask to set the flag
StatusRequests == {b \in CheckpointRequests : b.value}

NextStatus ==
    \E p \in {"p1"} :
        \/ \E order_id \in DOMAIN orders, body \in StatusRequests :
               UpdateCheckpoint(p, order_id, body)
        \/ \E order_id \in DOMAIN orders, body \in StatusRequests :
               UpdateCheckpointSelect(p, order_id, body)
        \/ UpdateCheckpointUpdate(p)
        \/ \E order_id \in OrderIds : GetOrder(p, order_id)

SpecStatus == InitStatus /\ [][NextStatus]_vars

-----------------------------------------------------------------------------
(* The service: every handler that sets a checkpoint, called one at a time *)

CorePayloads ==
    {d \in Payloads : /\ d.customer_name = AlRoy /\ d.customer_company = Empty
                      /\ d.gross_total = Some(20) /\ d.submitted_at = Some(1)
                      /\ d.sku_prefixes = << >>}

CoreBodies ==
    {b \in CheckpointBodies :
        /\ b.value
        /\ b.payment_amount \in {NULL, Some(120)}
        /\ b.payment_amount # NULL => b.checkpoint = "payment_received"}

CoreSubjects ==
    {s \in NotificationSubjects : s.amount \in {NULL, Some(20)} /\ s.payer # PayerKim}

CoreEmails == {e \in PaymentEmails : e.amount = 19 /\ e.payer = PayerAlRoy}

CorePaymentLists == {l \in SquarePaymentLists : Len(l) = 1 \/ l[2].payment_id = "sqA"}

Step(p) ==
    \/ \E order_data \in CorePayloads : SyncOrderFromB2bwave(p, order_data)
    \/ \E order_id \in OrderIds, body \in CoreBodies : UpdateCheckpoint(p, order_id, body)
    \/ \E order_id \in OrderIds, body \in CoreBodies :
           UpdateCheckpointSelect(p, order_id, body)
    \/ UpdateCheckpointUpdate(p)
    \/ \E order_id \in OrderIds, email_body \in {BodyLink, BodyNoLink} :
           DetectPaymentLink(p, order_id, email_body)
    \/ \E order_id \in OrderIds, subject \in LinkSubjects :
           UpdateOrderPaymentLinkSentSelect(p, order_id, subject)
    \/ UpdateOrderPaymentLinkSentUpdate(p)
    \/ \E email_subject \in CoreSubjects : DetectPaymentReceivedSelect(p, email_subject)
    \/ DetectPaymentReceivedUpdate(p)
    \/ \E email \in CoreEmails : MatchPaymentToOrderSelect(p, email)
    \/ MatchPaymentToOrderUpdate(p)
    \/ \E payments \in CorePaymentLists : SquareSyncBegin(p, payments)
    \/ SquareSyncPayment(p)
    \/ SquareSyncSelect(p)
    \/ SquareSyncUpdate(p)

Next == \E p \in {"p1"} : Step(p)

Spec == Init /\ [][Next]_vars

-----------------------------------------------------------------------------
(* POST /check-payment-alerts, PATCH /alerts/{alert_id}/resolve *)

\* INTERVAL '1 day', in steps of the clock
Day == 1

\* a row of order_alerts as INSERT leaves it
Alert(order_id, alert_type, t) ==
    [ order_id |-> order_id, alert_type |-> alert_type,
      is_resolved |-> FALSE, resolved_at |-> NULL, created_at |-> t ]

\* EXISTS (SELECT 1 FROM order_alerts a WHERE a.order_id = o.order_id
\*         AND a.alert_type = 'trusted_unpaid' AND NOT a.is_resolved)
HasUnresolvedAlert(order_id) ==
    \E i \in 1..Len(order_alerts) :
        /\ order_alerts[i].order_id = order_id
        /\ order_alerts[i].alert_type = "trusted_unpaid"
        /\ ~order_alerts[i].is_resolved

\* sent_to_warehouse = TRUE AND payment_received = FALSE AND is_trusted_customer
\* = TRUE AND sent_to_warehouse_at < NOW() - INTERVAL '1 day', at NOW() = t
TrustedUnpaid(order_id, t) ==
    /\ orders[order_id].sent_to_warehouse
    /\ ~orders[order_id].payment_received
    /\ orders[order_id].is_trusted_customer
    /\ orders[order_id].sent_to_warehouse_at # NULL
    /\ Val(orders[order_id].sent_to_warehouse_at) < t - Day

\* the sweep with NOT EXISTS (...) left out of the WHERE clause
CheckPaymentAlertsSelect_NoExists(p) ==
    /\ pc[p] = "idle"
    /\ NoWrite
    /\ \E list \in AnyOrder({o \in DOMAIN orders : TrustedUnpaid(o, now)}) :
         /\ pc' = [pc EXCEPT ![p] = "cpa_insert"]
         /\ loc' = [loc EXCEPT ![p] = [op |-> "check_payment_alerts", orders |-> list]]
    /\ UNCHANGED resp

\* SELECT ... FROM orders o WHERE ... AND NOT EXISTS (...); orders = cur.fetchall()
CheckPaymentAlertsSelect(p) ==
    /\ pc[p] = "idle"
    /\ NoWrite
    /\ \E list \in AnyOrder({o \in DOMAIN orders :
                                TrustedUnpaid(o, now) /\ ~HasUnresolvedAlert(o)}) :
         /\ pc' = [pc EXCEPT ![p] = "cpa_insert"]
         /\ loc' = [loc EXCEPT ![p] = [op |-> "check_payment_alerts", orders |-> list]]
    /\ UNCHANGED resp

\* for order in orders: INSERT INTO order_alerts ...; the commit of get_db
CheckPaymentAlertsInsert(p) ==
    LET list == loc[p].orders
    IN  /\ pc[p] = "cpa_insert"
        /\ IF list = << >>
           THEN NoWrite
           ELSE /\ now < MaxTime
                /\ order_alerts' = order_alerts \o
                       [i \in 1..Len(list) |-> Alert(list[i], "trusted_unpaid", now)]
                /\ now' = now + 1
                /\ UNCHANGED <<orders, order_events, order_line_items, warehouse_mapping,
                               access_token, token_expires>>
        /\ Return(p, Resp("check_payment_alerts", 200,
                          [status |-> "ok", alerts_created |-> Len(list)]))

\* UPDATE order_alerts SET is_resolved = TRUE, resolved_at = NOW() WHERE id = %s
ResolveAlert(p, alert_id) ==
    /\ pc[p] = "idle"
    /\ IF alert_id \in 1..Len(order_alerts)
       THEN /\ now < MaxTime
            /\ order_alerts' = [order_alerts EXCEPT ![alert_id].is_resolved = TRUE,
                                                    ![alert_id].resolved_at = Some(now)]
            /\ now' = now + 1
            /\ UNCHANGED <<orders, order_events, order_line_items, warehouse_mapping,
                           access_token, token_expires>>
       ELSE NoWrite
    /\ Return(p, Resp("resolve_alert", 200, [status |-> "ok"]))

-----------------------------------------------------------------------------
(* The alert sweep over orders stored and sent to the warehouse earlier *)

\* an order stored at time -3 for a customer who is, or is not, on the trusted list
AlertBaseRows ==
    { [NewOrder(AlRoy, Empty, -3, Some(20), -3) EXCEPT !.is_trusted_customer = trusted] :
        trusted \in BOOLEAN }

\* the row after PATCH /orders/{order_id}/checkpoint sent_to_warehouse at time t
SentToWarehouseAt(row, t) ==
    CheckpointSetParts(row,
        CheckpointUpdate([checkpoint |-> "sent_to_warehouse", source |-> NULL,
                          payment_amount |-> NULL]),
        NULL, t)

\* not sent, sent more than a day before time 1, sent less than a day before
AlertRows ==
    AlertBaseRows \cup {SentToWarehouseAt(r, -2) : r \in AlertBaseRows}
                  \cup {SentToWarehouseAt(r, 0) : r \in AlertBaseRows}

\* the log of such a table: the events of the inserts, then those of the
\* checkpoint requests in the order of their times
AlertStoredEvents(table) ==
    LET Stored(order_id) == order_id \in DOMAIN table
        SentEarly(order_id) ==
            order_id \in DOMAIN table /\ table[order_id].sent_to_warehouse_at = Some(-2)
        SentLate(order_id) ==
            order_id \in DOMAIN table /\ table[order_id].sent_to_warehouse_at = Some(0)
        stored == SelectSeq(OrderIdList, Stored)
        early == SelectSeq(OrderIdList, SentEarly)
        late == SelectSeq(OrderIdList, SentLate)
    IN  [i \in 1..Len(stored) |-> Event(stored[i], "b2bwave_sync", NULL, "api", -3)]
        \o [i \in 1..Len(early) |-> Event(early[i], "sent_to_warehouse", NULL, "api", -2)]
        \o [i \in 1..Len(late) |-> Event(late[i], "sent_to_warehouse", NULL, "api", 0)]

InitAlerts ==
    /\ \E ids \in SUBSET OrderIds : orders \in [ids -> AlertRows]
    /\ order_events = AlertStoredEvents(orders)
    /\ order_alerts = << >>
    /\ order_line_items = << >>
    /\ warehouse_mapping = WarehouseMapping
    /\ access_token = NULL
    /\ token_expires = NULL
    /\ now = 1
    /\ pc = [p \in Procs |-> "idle"]
    /\ loc = [p \in Procs |-> NoLocals]
    /\ resp = [p \in Procs |-> NoResp]

\* one caller: sweeps, and alerts resolved between them
NextAlerts ==
    \E p \in {"p1"} :
        \/ CheckPaymentAlertsSelect(p)
        \/ CheckPaymentAlertsInsert(p)
        \/ \E alert_id \in 1..(Len(order_alerts) + 1) : ResolveAlert(p, alert_id)

SpecAlerts == InitAlerts /\ [][NextAlerts]_vars

\* two callers whose sweeps overlap
NextSweeps ==
    \E p \in Procs :
        \/ CheckPaymentAlertsSelect(p)
        \/ CheckPaymentAlertsInsert(p)

SpecSweeps == InitAlerts /\ [][NextSweeps]_vars

-----------------------------------------------------------------------------
(* run_gmail_sync: the RL quote and tracking emails of a run *)

\* what the searches of sections 3 and 4 yield, as the patterns read it: the
\* order id of extract_order_id, the captured number, and the carrier
GmailEmails ==
    [ kind : {"rl_quote"}, order_id : OrderIds, number : {"1234567"}, carrier : {""} ]
        \cup [ kind : {"tracking"}, order_id : OrderIds, number : {"123456789"},
               carrier : {"PRO"} ]
        \cup [ kind : {"tracking"}, order_id : OrderIds, number : {"1Z12345E0205271688"},
               carrier : {"UPS"} ]

\* the emails of one run in the order they are handled: quotes, then tracking
GmailEmailLists ==
    {<<x>> : x \in GmailEmails}
        \cup {l \in {<<x, y>> : x \in GmailEmails, y \in GmailEmails} :
                 l[1].kind = "tracking" => l[2].kind = "tracking"}

GmailResults(rl_quotes, tracking_numbers, errors) ==
    [ payment_links |-> 0, payments_received |-> 0, rl_quotes |-> rl_quotes,
      tracking_numbers |-> tracking_numbers, errors |-> errors ]

\* results = {...}; the searches.  failed is the state of db_conn: a statement
\* has failed in its transaction and no rollback has ended it
GmailSyncBegin(p, emails) ==
    /\ pc[p] = "idle"
    /\ NoWrite
    /\ pc' = [pc EXCEPT ![p] = "gm_email"]
    /\ loc' = [loc EXCEPT ![p] =
           [ op |-> "run_gmail_sync", emails |-> emails, i |-> 1, failed |-> FALSE,
             results |-> GmailResults(0, 0, << >>) ]]
    /\ UNCHANGED resp

\* UPDATE orders SET rl_quote_no = %s, updated_at = NOW() WHERE order_id = %s
RlQuoteRow(row, quote_no, t) ==
    [row EXCEPT !.rl_quote_no = Some(quote_no), !.updated_at = t]

\* f"{carrier} {tracking_no}" if carrier != 'PRO' else f"R+L PRO {tracking_no}"
TrackingText(tracking_no, carrier) ==
    IF carrier # "PRO" THEN <<carrier, " ", tracking_no>>
    ELSE <<"R+L PRO", " ", tracking_no>>

\* UPDATE orders SET tracking = %s, pro_number = CASE ... END, updated_at = NOW()
TrackingRow(row, tracking_no, carrier, t) ==
    [row EXCEPT !.tracking = Some(TrackingText(tracking_no, carrier)),
                !.pro_number = IF carrier = "PRO" THEN Some(tracking_no) ELSE @,
                !.updated_at = t]

\* the event update_order_rl_quote / update_order_tracking inserts
GmailEvent(email, t) ==
    IF email.kind = "rl_quote"
    THEN Event(email.order_id, "rl_quote_captured", [quote_no |-> email.number],
               "gmail_sync", t)
    ELSE Event(email.order_id, "tracking_captured",
               [tracking |-> email.number, carrier |-> email.carrier], "gmail_sync", t)

\* results with the count of the kind of email raised by one
GmailCounted(results, email) ==
    IF email.kind = "rl_quote" THEN [results EXCEPT !.rl_quotes = @ + 1]
    ELSE [results EXCEPT !.tracking_numbers = @ + 1]

\* for msg in messages: UPDATE, INSERT, commit for the next email, or the return
\* after the last.  The INSERT into order_events of an order that does not exist
\* violates the foreign key; except appends to results["errors"] and the loop
\* goes on without a rollback, so every later statement on db_conn fails
GmailSyncEmail(p) ==
    LET l == loc[p]
        email == l.emails[l.i]
        Failed(error) ==
            [l EXCEPT !.i = l.i + 1, !.failed = TRUE,
                      !.results.errors = Append(@, [kind |-> email.kind, error |-> error])]
    IN  /\ pc[p] = "gm_email"
        /\ IF l.i > Len(l.emails)
           THEN /\ NoWrite
                /\ Return(p, Resp("run_gmail_sync", 0, l.results))
           ELSE /\ UNCHANGED <<pc, resp>>
                /\ IF l.failed
                   THEN /\ NoWrite
                        /\ loc' = [loc EXCEPT ![p] = Failed("InFailedSqlTransaction")]
                   ELSE IF email.order_id \notin DOMAIN orders
                   THEN /\ NoWrite
                        /\ loc' = [loc EXCEPT ![p] = Failed("ForeignKeyViolation")]
                   ELSE /\ Commit(email.order_id,
                                  IF email.kind = "rl_quote"
                                  THEN RlQuoteRow(orders[email.order_id], email.number, now)
                                  ELSE TrackingRow(orders[email.order_id], email.number,
                                                   email.carrier, now),
                                  GmailEvent(email, now))
                        /\ loc' = [loc EXCEPT ![p] =
                               [l EXCEPT !.i = l.i + 1,
                                         !.results = GmailCounted(l.results, email)]]

NextGmail ==
    \E p \in {"p1"} :
        \/ \E emails \in GmailEmailLists : GmailSyncBegin(p, emails)
        \/ GmailSyncEmail(p)

SpecGmail == InitLink /\ [][NextGmail]_vars

-----------------------------------------------------------------------------
(* run_gmail_sync: the payment-link emails of a run *)

\* what extract_order_id reads in a sent email with a payment link: an order id
\* or none
LinkEmailIds == {Some(order_id) : order_id \in OrderIds} \cup {NULL}

\* order_id = extract_order_id(...); if order_id:
\* update_order_payment_link_sent(...); results["payment_links"] += 1, with the
\* SELECT of update_order_payment_link_sent and its two early returns
GmailPaymentLinkSelect(p, extracted, subject) ==
    /\ pc[p] = "idle"
    /\ NoWrite
    /\ IF extracted = NULL
       THEN Return(p, Resp("run_gmail_sync", 0, GmailResults(0, 0, << >>)))
       ELSE IF Val(extracted) \notin DOMAIN orders
       THEN Return(p, Resp("run_gmail_sync", 0,
                           [GmailResults(0, 0, << >>) EXCEPT !.payment_links = 1]))
       ELSE IF orders[Val(extracted)].payment_link_sent
       THEN Return(p, Resp("run_gmail_sync", 0,
                           [GmailResults(0, 0, << >>) EXCEPT !.payment_links = 1]))
       ELSE /\ pc' = [pc EXCEPT ![p] = "gm_link"]
            /\ loc' = [loc EXCEPT ![p] =
                   [ op |-> "run_gmail_sync", order_id |-> Val(extracted),
                     subject |-> subject ]]
            /\ UNCHANGED resp

\* UPDATE, INSERT INTO order_events, conn.commit() of
\* update_order_payment_link_sent, then results["payment_links"] += 1
GmailPaymentLinkUpdate(p) ==
    LET order_id == loc[p].order_id
    IN  /\ pc[p] = "gm_link"
        /\ order_id \in DOMAIN orders
        /\ Commit(order_id, PaymentLinkSentRow(orders[order_id], now),
                  Event(order_id, "payment_link_sent", [subject |-> loc[p].subject],
                        "gmail_sync", now))
        /\ Return(p, Resp("run_gmail_sync", 0,
                          [GmailResults(0, 0, << >>) EXCEPT !.payment_links = 1]))

NextCounts ==
    \E p \in {"p1"} :
        \/ \E extracted \in LinkEmailIds, subject \in LinkSubjects :
               GmailPaymentLinkSelect(p, extracted, subject)
        \/ GmailPaymentLinkUpdate(p)
        \/ \E emails \in GmailEmailLists : GmailSyncBegin(p, emails)
        \/ GmailSyncEmail(p)

SpecCounts == InitLink /\ [][NextCounts]_vars

-----------------------------------------------------------------------------
(* Orders stored and stored again: the upstream sync and the order emails *)

\* upstream orders that differ in their products
WarehousePayloads ==
    {d \in Payloads : /\ d.customer_name = AlRoy /\ d.customer_company = Empty
                      /\ d.gross_total = Some(20) /\ d.submitted_at = Some(1)}

NextWarehouse ==
    \E p \in {"p1"} :
        \/ \E order_data \in WarehousePayloads : SyncOrderFromB2bwave(p, order_data)
        \/ \E parsed \in ParsedEmails : ParseEmailSelect(p, parsed)
        \/ ParseEmailWrite(p)

SpecWarehouse == Init /\ [][NextWarehouse]_vars

-----------------------------------------------------------------------------
(* Orders whose products come from one warehouse, from two, or from none *)

ResolvePrefixLists ==
    {<< >>, <<"HSS", "NSN">>, <<"NSN", "HSS", "WWW">>, <<"AKS", "WWW">>}

ResolvePayloads ==
    [ id : OrderIds, customer_name : {AlRoy}, customer_company : {Empty},
      gross_total : {Some(20)}, submitted_at : {Some(1)},
      sku_prefixes : ResolvePrefixLists ]

ResolveEmails ==
    [ order_id : {Some(o) : o \in OrderIds}, customer_name : {Some(AlRoy)},
      company_name : {NULL}, order_total : {Some(20)},
      sku_prefixes : ResolvePrefixLists, email_date : {NULL} ]

NextResolve ==
    \E p \in {"p1"} :
        \/ \E order_data \in ResolvePayloads : SyncOrderFromB2bwave(p, order_data)
        \/ \E parsed \in ResolveEmails : ParseEmailSelect(p, parsed)
        \/ ParseEmailWrite(p)

SpecResolve == Init /\ [][NextResolve]_vars

-----------------------------------------------------------------------------
(* Upstream orders with their products, synced and synced again *)

\* order_products of a payload: product_code (prefix, hyphen, rest) and quantity
ProductHss == [product_code |-> <<"HSS", "-", "B12">>, quantity |-> 2]

ProductWww == [product_code |-> <<"WWW", "-", "W3030">>, quantity |-> 1]

OrderProductLists == {<< >>, <<ProductHss>>, <<ProductWww>>, <<ProductHss, ProductWww>>}

\* if '-' in product_code: prefix = product_code.split('-')[0]; if prefix and
\* prefix not in sku_prefixes: sku_prefixes.append(prefix)
SkuPrefixesOf(order_products) ==
    UniqueLoop(SelectSeq([i \in 1..Len(order_products) |->
                             IF \E k \in 2..Len(order_products[i].product_code) :
                                    order_products[i].product_code[k] = "-"
                             THEN order_products[i].product_code[1] ELSE ""],
                         LAMBDA prefix : prefix # ""),
               1, {}, << >>)

\* line_items.append({'sku': product_code, ..., 'quantity': quantity, ...})
LineItemsOf(order_products) ==
    [i \in 1..Len(order_products) |->
        [sku |-> order_products[i].product_code, quantity |-> order_products[i].quantity]]

ItemPayloads ==
    { [ id |-> o, customer_name |-> AlRoy, customer_company |-> Empty,
        gross_total |-> Some(20), submitted_at |-> Some(1),
        order_products |-> order_products,
        sku_prefixes |-> SkuPrefixesOf(order_products) ] :
          o \in OrderIds, order_products \in OrderProductLists }

NextItems ==
    \E p \in {"p1"} :
        \E order_data \in ItemPayloads : SyncOrderFromB2bwave(p, order_data)

SpecItems == Init /\ [][NextItems]_vars

-----------------------------------------------------------------------------
(* The batch runs, with statements that may fail *)

\* the upstream orders of a batch: one or two
BatchOrderLists ==
    {<<x>> : x \in CorePayloads}
        \cup {<<x, y>> : x \in CorePayloads, y \in CorePayloads}

NextBatch ==
    \E p \in {"p1"} :
        \/ \E payments \in SquarePaymentLists : SquareSyncBegin(p, payments)
        \/ SquareSyncPayment(p)
        \/ SquareSyncSelect(p)
        \/ SquareSyncUpdate(p)
        \/ SquareSyncUpdateFails(p)
        \/ \E orders_list \in BatchOrderLists : SyncFromB2bwaveBegin(p, orders_list)
        \/ SyncFromB2bwaveOrder(p)
        \/ SyncFromB2bwaveOrderFails(p)

SpecBatch == InitLink /\ [][NextBatch]_vars

-----------------------------------------------------------------------------
(* Two processes handling the same signals: a background sync and a request,
   or two overlapping sync runs *)

\* the order both processes are told about, stored and unmarked
OverlapIds == {"5301"}

OverlapRows == {r \in LinkRows : r.order_date = 1}

InitOverlap == InitStored({OverlapIds}, OverlapRows)

\* the payment window of the overlapping Square runs: one payment for the order
OverlapPayments ==
    {l \in SquarePaymentLists : Len(l) = 1 /\ l[1].order_ids = <<"5301">>}

NextOverlap ==
    \E p \in Procs :
        \/ \E order_id \in OverlapIds : DetectPaymentLink(p, order_id, BodyLink)
        \/ \E order_id \in OverlapIds, subject \in LinkSubjects :
               UpdateOrderPaymentLinkSentSelect(p, order_id, subject)
        \/ UpdateOrderPaymentLinkSentUpdate(p)
        \/ \E payments \in OverlapPayments : SquareSyncBegin(p, payments)
        \/ SquareSyncPayment(p)
        \/ SquareSyncSelect(p)
        \/ SquareSyncUpdate(p)

SpecOverlap == InitOverlap /\ [][NextOverlap]_vars

-----------------------------------------------------------------------------
(* Every operation that updates a stored order, with signals that leave
   values out *)

\* upstream orders; an Empty customer_name and a NULL gross_total are those of
\* a payload without the key (order.get('customer_name', ''))
FramePayloads ==
    [ id : OverlapIds, customer_name : {AlRoy, Empty}, customer_company : {Empty},
      gross_total : {NULL, Some(20)}, submitted_at : {Some(1)},
      sku_prefixes : {<< >>, <<"AKS">>} ]

FrameEmails ==
    {e \in ParsedEmails : e.order_id = Some("5301") /\ e.sku_prefixes \in {<< >>, <<"WWW">>}}

FrameUpdates == {u \in OrderUpdates : u.tracking = NULL}

FrameBodies ==
    {b \in CoreBodies : b.checkpoint \in {"payment_received", "bol_sent"}}

NextFrame ==
    \E p \in {"p1"} :
        \/ \E order_data \in FramePayloads : SyncOrderFromB2bwave(p, order_data)
        \/ \E parsed \in FrameEmails : ParseEmailSelect(p, parsed)
        \/ ParseEmailWrite(p)
        \/ \E order_id \in OverlapIds, update \in FrameUpdates :
               UpdateOrder(p, order_id, update)
        \/ \E order_id \in OverlapIds, body \in FrameBodies :
               UpdateCheckpoint(p, order_id, body)
        \/ \E order_id \in OverlapIds, body \in FrameBodies :
               UpdateCheckpointSelect(p, order_id, body)
        \/ UpdateCheckpointUpdate(p)
        \/ \E payments \in OverlapPayments : SquareSyncBegin(p, payments)
        \/ SquareSyncPayment(p)
        \/ SquareSyncSelect(p)
        \/ SquareSyncUpdate(p)

SpecFrame == InitOverlap /\ [][NextFrame]_vars

-----------------------------------------------------------------------------
(* The operations that write an order, over one stored order *)

FlagPayloads == {d \in FramePayloads : d.customer_name = AlRoy}

FlagEmails == {e \in FrameEmails : e.sku_prefixes = << >>}

FlagUpdates == {u \in FrameUpdates : Cardinality(UpdateOrderFields(u)) <= 1}

\* the operations of the frame above with the detections and the payment match
NextFlags ==
    \E p \in {"p1"} :
        \/ \E order_data \in FlagPayloads : SyncOrderFromB2bwave(p, order_data)
        \/ \E parsed \in FlagEmails : ParseEmailSelect(p, parsed)
        \/ ParseEmailWrite(p)
        \/ \E order_id \in OverlapIds, update \in FlagUpdates :
               UpdateOrder(p, order_id, update)
        \/ \E order_id \in OverlapIds, body \in FrameBodies :
               UpdateCheckpoint(p, order_id, body)
        \/ \E order_id \in OverlapIds, body \in FrameBodies :
               UpdateCheckpointSelect(p, order_id, body)
        \/ UpdateCheckpointUpdate(p)
        \/ \E order_id \in OverlapIds, email_body \in {BodyLink, BodyNoLink} :
               DetectPaymentLink(p, order_id, email_body)
        \/ \E order_id \in OverlapIds, subject \in LinkSubjects :
               UpdateOrderPaymentLinkSentSelect(p, order_id, subject)
        \/ UpdateOrderPaymentLinkSentUpdate(p)
        \/ \E email_subject \in CoreSubjects : DetectPaymentReceivedSelect(p, email_subject)
        \/ DetectPaymentReceivedUpdate(p)
        \/ \E email \in CoreEmails : MatchPaymentToOrderSelect(p, email)
        \/ MatchPaymentToOrderUpdate(p)
        \/ \E payments \in OverlapPayments : SquareSyncBegin(p, payments)
        \/ SquareSyncPayment(p)
        \/ SquareSyncSelect(p)
        \/ SquareSyncUpdate(p)

SpecFlags == InitOverlap /\ [][NextFlags]_vars

-----------------------------------------------------------------------------
(* extract_order_ids over the payment descriptions *)

\* the function about to be called with each description
InitExtract ==
    /\ orders = << >>
    /\ order_events = << >>
    /\ order_alerts = << >>
    /\ order_line_items = << >>
    /\ warehouse_mapping = WarehouseMapping
    /\ access_token = NULL
    /\ token_expires = NULL
    /\ now = 1
    /\ \E description \in Descriptions :
           /\ pc = [p \in Procs |-> IF p = "p1" THEN "extract_order_ids" ELSE "idle"]
           /\ loc = [p \in Procs |->
                        IF p = "p1"
                        THEN [op |-> "extract_order_ids", description |-> description]
                        ELSE NoLocals]
    /\ resp = [p \in Procs |-> NoResp]

NextExtract == \E p \in {"p1"} : ExtractOrderIdsCall(p)

SpecExtract == InitExtract /\ [][NextExtract]_vars

-----------------------------------------------------------------------------
(* The single-identifier extractors over texts that name an order *)

InitIdentifier ==
    /\ orders = << >>
    /\ order_events = << >>
    /\ order_alerts = << >>
    /\ order_line_items = << >>
    /\ warehouse_mapping = WarehouseMapping
    /\ access_token = NULL
    /\ token_expires = NULL
    /\ now = 1
    /\ \E t \in OrderTexts :
           /\ pc = [p \in Procs |-> IF p = "p1" THEN "extract_order_id" ELSE "idle"]
           /\ loc = [p \in Procs |->
                        IF p = "p1"
                        THEN [op |-> "extract_order_id", text |-> t.text, id |-> t.id]
                        ELSE NoLocals]
    /\ resp = [p \in Procs |-> NoResp]

NextIdentifier ==
    \E p \in {"p1"} :
        \/ ExtractOrderIdCall(p)
        \/ ParseB2bwaveEmailCall(p)

SpecIdentifier == InitIdentifier /\ [][NextIdentifier]_vars

-----------------------------------------------------------------------------
(* Two processes storing and editing the same order *)

IdentityPayloads ==
    {d \in CorePayloads : d.id \in OverlapIds}

IdentityEmails ==
    {e \in ParsedEmails : /\ e.order_id = Some("5301") /\ e.order_total = NULL
                          /\ e.sku_prefixes = << >>}

IdentityUpdates ==
    {u \in OrderUpdates : /\ u.customer_name # NULL /\ u.order_total = NULL
                          /\ u.tracking = NULL /\ u.warehouse_1 = NULL}

NextIdentity ==
    \E p \in Procs :
        \/ \E order_data \in IdentityPayloads : SyncOrderFromB2bwave(p, order_data)
        \/ \E parsed \in IdentityEmails : ParseEmailSelect(p, parsed)
        \/ ParseEmailWrite(p)
        \/ \E order_id \in OverlapIds, update \in IdentityUpdates :
               UpdateOrder(p, order_id, update)

SpecIdentity == Init /\ [][NextIdentity]_vars

-----------------------------------------------------------------------------
(* A stored order synced and parsed again while another process marks it *)

RaceBodies ==
    {b \in CoreBodies : \/ b.checkpoint = "payment_received" /\ b.payment_amount # NULL
                        \/ b.checkpoint = "bol_sent"}

NextRace ==
    \E p \in Procs :
        \/ \E order_data \in IdentityPayloads : SyncOrderFromB2bwave(p, order_data)
        \/ \E parsed \in IdentityEmails : ParseEmailSelect(p, parsed)
        \/ ParseEmailWrite(p)
        \/ \E order_id \in OverlapIds, body \in RaceBodies :
               UpdateCheckpoint(p, order_id, body)
        \/ \E order_id \in OverlapIds, body \in RaceBodies :
               UpdateCheckpointSelect(p, order_id, body)
        \/ UpdateCheckpointUpdate(p)
        \/ \E payments \in OverlapPayments : SquareSyncBegin(p, payments)
        \/ SquareSyncPayment(p)
        \/ SquareSyncSelect(p)
        \/ SquareSyncUpdate(p)

SpecRace == InitOverlap /\ [][NextRace]_vars

-----------------------------------------------------------------------------
(* The payment signals, matched or not: the Square payment emails of
   run_gmail_sync, the notifications and the Square payments *)

\* run_gmail_sync whose window holds one Square payment email: amount and
\* customer_name extracted, match_payment_to_order up to its loop.  Without a
\* match the function returns False and the run goes on to its return
GmailPaymentSelect(p, email) ==
    /\ pc[p] = "idle"
    /\ NoWrite
    /\ \E list \in OrderByDateDesc(MatchCandidates(email.payer)) :
         LET matched == MatchLoop(Limit(list, MatchLimit), 1, email.amount)
         IN  IF matched = NULL
             THEN Return(p, Resp("run_gmail_sync", 0, GmailResults(0, 0, << >>)))
             ELSE /\ pc' = [pc EXCEPT ![p] = "gm_payment"]
                  /\ loc' = [loc EXCEPT ![p] =
                         [ op |-> "run_gmail_sync", order_id |-> Val(matched),
                           email |-> email ]]
                  /\ UNCHANGED resp

\* the UPDATE, the INSERT and the commit of match_payment_to_order;
\* results["payments_received"] += 1
GmailPaymentUpdate(p) ==
    LET order_id == loc[p].order_id
        email == loc[p].email
    IN  /\ pc[p] = "gm_payment"
        /\ order_id \in DOMAIN orders
        /\ Commit(order_id, MatchPaymentRow(orders[order_id], email.amount, now),
                  Event(order_id, "payment_received",
                        [amount |-> email.amount, customer |-> email.payer],
                        "gmail_sync", now))
        /\ Return(p, Resp("run_gmail_sync", 0,
                          [GmailResults(0, 0, << >>) EXCEPT !.payments_received = 1]))

SignalPaymentLists == {l \in SquarePaymentLists : Len(l) = 1}

NextSignals ==
    \E p \in {"p1"} :
        \/ \E email \in PaymentEmails : GmailPaymentSelect(p, email)
        \/ GmailPaymentUpdate(p)
        \/ \E email_subject \in NotificationSubjects :
               DetectPaymentReceivedSelect(p, email_subject)
        \/ DetectPaymentReceivedUpdate(p)
        \/ \E payments \in SignalPaymentLists : SquareSyncBegin(p, payments)
        \/ SquareSyncPayment(p)
        \/ SquareSyncSelect(p)
        \/ SquareSyncUpdate(p)

SpecSignals == InitOverlap /\ [][NextSignals]_vars

-----------------------------------------------------------------------------
(* The automatic payment paths run concurrently over one unpaid order *)

\* notifications of two payments by the customer of the order
ConcurrentSubjects ==
    {s \in NotificationSubjects : s.amount \in {Some(20), Some(95)} /\ s.payer = PayerAlRoy}

\* Square payment emails of two payments by the customer of the order
ConcurrentEmails == {e \in PaymentEmails : e.amount \in {19, 95} /\ e.payer = PayerAlRoy}

NextPayments ==
    \E p \in Procs :
        \/ \E email_subject \in ConcurrentSubjects :
               DetectPaymentReceivedSelect(p, email_subject)
        \/ DetectPaymentReceivedUpdate(p)
        \/ \E email \in ConcurrentEmails : MatchPaymentToOrderSelect(p, email)
        \/ MatchPaymentToOrderUpdate(p)
        \/ \E payments \in OverlapPayments : SquareSyncBegin(p, payments)
        \/ SquareSyncPayment(p)
        \/ SquareSyncSelect(p)
        \/ SquareSyncUpdate(p)

SpecPayments == InitOverlap /\ [][NextPayments]_vars

-----------------------------------------------------------------------------
(* POST /warehouse-mapping, and the warehouse slots under a changing mapping *)

\* mapping.sku_prefix.upper(), for the prefixes of the requests
SkuPrefixUpper(sku_prefix) ==
    CASE sku_prefix = "hss" -> "HSS"
      [] sku_prefix = "new" -> "NEW"
      [] OTHER -> sku_prefix

\* request bodies of POST /warehouse-mapping
WarehouseMappingUpdates ==
    [ sku_prefix : {"hss", "NEW"}, warehouse_name : {"GHI", "DL Cabinetry"} ]

\* INSERT INTO warehouse_mapping ... ON CONFLICT (sku_prefix) DO UPDATE SET
\* warehouse_name = EXCLUDED.warehouse_name, committed by get_db
AddWarehouseMapping(p, mapping) ==
    /\ pc[p] = "idle"
    /\ now < MaxTime
    /\ now' = now + 1
    /\ warehouse_mapping' =
           (SkuPrefixUpper(mapping.sku_prefix) :> mapping.warehouse_name)
               @@ warehouse_mapping
    /\ UNCHANGED <<orders, order_events, order_alerts, order_line_items,
                   access_token, token_expires>>
    /\ Return(p, Resp("add_warehouse_mapping", 200,
                      [status |-> "ok", message |-> "Mapping saved"]))

SlotPrefixLists == {<< >>, <<"AKS">>, <<"HSS", "AKS">>, <<"NEW", "WWW">>}

SlotPayloads ==
    [ id : OverlapIds, customer_name : {AlRoy}, customer_company : {Empty},
      gross_total : {Some(20)}, submitted_at : {Some(1)},
      sku_prefixes : SlotPrefixLists ]

SlotEmails ==
    [ order_id : {Some(o) : o \in OverlapIds}, customer_name : {Some(AlRoy)},
      company_name : {NULL}, order_total : {Some(20)},
      sku_prefixes : SlotPrefixLists, email_date : {NULL} ]

NextSlots ==
    \E p \in {"p1"} :
        \/ \E order_data \in SlotPayloads : SyncOrderFromB2bwave(p, order_data)
        \/ \E parsed \in SlotEmails : ParseEmailSelect(p, parsed)
        \/ ParseEmailWrite(p)
        \/ \E mapping \in WarehouseMappingUpdates : AddWarehouseMapping(p, mapping)

SpecSlots == Init /\ [][NextSlots]_vars

-----------------------------------------------------------------------------
(* gmail_sync.get_gmail_access_token *)

\* timedelta(minutes=50), in steps of the clock
TokenLife == 2

\* what the token endpoint does with a request: it answers with a token, with a
\* body that has no access_token, or urlopen / json.loads raises
TokenAnswers == {"token", "no_token", "error"}

\* _access_token and _token_expires and datetime.now(timezone.utc) < _token_expires
CachedTokenValid_AtExpiry ==
    access_token # NULL /\ token_expires # NULL /\ now <= Val(token_expires)

CachedTokenValid ==
    access_token # NULL /\ token_expires # NULL /\ now < Val(token_expires)

\* the return of the cached token, the return of None when Gmail is not
\* configured, or the way on to the request.  configured is gmail_configured(),
\* read from the environment when the module loads
GetGmailAccessTokenCheck(p, configured) ==
    /\ pc[p] = "idle"
    /\ NoWrite
    /\ IF CachedTokenValid
       THEN Return(p, Resp("get_gmail_access_token", 0,
                           [token |-> access_token, requested |-> FALSE]))
       ELSE IF ~configured
       THEN Return(p, Resp("get_gmail_access_token", 0,
                           [token |-> NULL, requested |-> FALSE]))
       ELSE /\ pc' = [pc EXCEPT ![p] = "gt_request"]
            /\ loc' = [loc EXCEPT ![p] = [op |-> "get_gmail_access_token"]]
            /\ UNCHANGED resp

\* urlopen(req), _access_token = data.get('access_token'), _token_expires =
\* now + 50 minutes, return _access_token; except Exception: return None.  The
\* token issued at a time is named by that time
GetGmailAccessTokenRequest(p, answer) ==
    /\ pc[p] = "gt_request"
    /\ UNCHANGED <<orders, order_events, order_alerts, order_line_items,
                   warehouse_mapping, now>>
    /\ IF answer = "error"
       THEN /\ UNCHANGED <<access_token, token_expires>>
            /\ Return(p, Resp("get_gmail_access_token", 0,
                              [token |-> NULL, requested |-> TRUE]))
       ELSE /\ access_token' = IF answer = "token" THEN Some(now) ELSE NULL
            /\ token_expires' = Some(now + TokenLife)
            /\ Return(p, Resp("get_gmail_access_token", 0,
                              [token |-> access_token', requested |-> TRUE]))

\* datetime.now(timezone.utc) moves on between and within the calls
TokenClock ==
    /\ now < MaxTime
    /\ now' = now + 1
    /\ UNCHANGED <<orders, order_events, order_alerts, order_line_items,
                   warehouse_mapping, access_token, token_expires, pc, loc, resp>>

NextToken ==
    \/ \E p \in Procs :
        \/ \E configured \in BOOLEAN : GetGmailAccessTokenCheck(p, configured)
        \/ \E answer \in TokenAnswers : GetGmailAccessTokenRequest(p, answer)
    \/ TokenClock

SpecToken == Init /\ [][NextToken]_vars

-----------------------------------------------------------------------------
(* The batch operations with and without the credentials of their source *)

\* if not gmail_configured(): return {"status": "skipped", "reason": "not_configured"}
RunGmailSync(p, gmail_configured, emails) ==
    IF gmail_configured
    THEN GmailSyncBegin(p, emails)
    ELSE /\ pc[p] = "idle"
         /\ NoWrite
         /\ Return(p, Resp("run_gmail_sync", 0,
                           [status |-> "skipped", reason |-> "not_configured"]))

\* if not square_configured(): return {"status": "disabled", "reason": ...}
RunSquareSync(p, square_configured, payments) ==
    IF square_configured
    THEN SquareSyncBegin(p, payments)
    ELSE /\ pc[p] = "idle"
         /\ NoWrite
         /\ Return(p, Resp("run_square_sync", 0,
                           [status |-> "disabled",
                            reason |-> "Square API not configured"]))

\* b2bwave_api_request raises HTTPException(500, "B2BWave API not configured")
\* without B2BWAVE_URL, B2BWAVE_USERNAME or B2BWAVE_API_KEY; the handler's
\* except Exception raises HTTPException(500, "B2BWave API error: ...") for it
SyncFromB2bwave(p, b2bwave_configured, orders_list) ==
    IF b2bwave_configured
    THEN SyncFromB2bwaveBegin(p, orders_list)
    ELSE /\ pc[p] = "idle"
         /\ NoWrite
         /\ Return(p, Resp("sync_from_b2bwave", 500, [detail |-> "B2BWave API error"]))

ConfigEmailLists == {l \in GmailEmailLists : Len(l) = 1 /\ l[1].order_id \in OverlapIds}

ConfigOrderLists == {<<x>> : x \in IdentityPayloads}

NextConfig ==
    \E p \in {"p1"} :
        \/ \E gmail_configured \in BOOLEAN, emails \in ConfigEmailLists :
               RunGmailSync(p, gmail_configured, emails)
        \/ GmailSyncEmail(p)
        \/ \E square_configured \in BOOLEAN, payments \in OverlapPayments :
               RunSquareSync(p, square_configured, payments)
        \/ SquareSyncPayment(p)
        \/ SquareSyncSelect(p)
        \/ SquareSyncUpdate(p)
        \/ \E b2bwave_configured \in BOOLEAN, orders_list \in ConfigOrderLists :
               SyncFromB2bwave(p, b2bwave_configured, orders_list)
        \/ SyncFromB2bwaveOrder(p)

SpecConfig == InitOverlap /\ [][NextConfig]_vars

-----------------------------------------------------------------------------
(* The operations that look an order up by its identifier, over stored orders *)

NextLookup == NextLink \/ NextSquare

SpecLookup == InitLink /\ [][NextLookup]_vars

-----------------------------------------------------------------------------
(* POST /init-db, and the service with it *)

\* cur.execute(SCHEMA_SQL): DROP TABLE IF EXISTS ... CASCADE and CREATE TABLE for
\* every table, committed by get_db
InitDb(p) ==
    /\ pc[p] = "idle"
    /\ now < MaxTime
    /\ orders' = << >>
    /\ order_events' = << >>
    /\ order_alerts' = << >>
    /\ order_line_items' = << >>
    /\ warehouse_mapping' = WarehouseMapping
    /\ UNCHANGED <<access_token, token_expires>>
    /\ now' = now + 1
    /\ Return(p, Resp("init_db", 200,
                      [status |-> "ok", message |-> "Database schema initialized"]))

NextService == \E p \in {"p1"} : Step(p) \/ InitDb(p)

SpecService == Init /\ [][NextService]_vars

-----------------------------------------------------------------------------
(* Checkpoint flags and their timestamps *)

\* C1: in every state, hence for a reader at any point of any handler, each of
\* the six checkpoint flags of every order is true exactly when its paired
\* timestamp column is not NULL
FlagIffTimestamp ==
    \A o \in DOMAIN orders : \A c \in Checkpoints :
        orders[o][c] <=> orders[o][TimestampField(c)] # NULL

\* an order with checkpoints set by a payment match and by a checkpoint update,
\* and others still unset
FlagIffTimestampReached ==
    \E o \in DOMAIN orders :
        /\ orders[o].payment_received /\ orders[o].payment_received_at # NULL
        /\ orders[o].is_complete /\ orders[o].completed_at # NULL
        /\ ~orders[o].bol_sent /\ orders[o].bol_sent_at = NULL
        /\ \E i \in 1..Len(order_events) :
               /\ order_events[i].order_id = o
               /\ order_events[i].event_type = "payment_received"
               /\ order_events[i].source = "square_api"

\* the events of type c for order o that a step adds to order_events
AddedEvents(o, c) ==
    { i \in (Len(order_events) + 1)..Len(order_events') :
        order_events'[i].order_id = o /\ order_events'[i].event_type = c }

\* C2: a step that turns a checkpoint flag of an order from false to true adds
\* exactly one event of that checkpoint's type for that order, and a step that
\* adds such an event has set the flag in the same transaction: the flag is true
\* and its timestamp is this transaction's NOW()
EventWithFlag ==
    [][ \A o \in OrderIds : \A c \in Checkpoints :
          LET was == o \in DOMAIN orders /\ orders[o][c]
              is == o \in DOMAIN orders' /\ orders'[o][c]
          IN  /\ (~was /\ is) => Cardinality(AddedEvents(o, c)) = 1
              /\ AddedEvents(o, c) # {} =>
                     is /\ orders'[o][TimestampField(c)] = Some(now) ]_vars

\* a payment matched by the mail sync: the order is marked paid, stamped with the
\* time of its payment_received event
EventWithFlagReached ==
    \E i \in 1..Len(order_events) :
        /\ order_events[i].event_type = "payment_received"
        /\ order_events[i].source = "gmail_sync"
        /\ orders[order_events[i].order_id].payment_received
        /\ orders[order_events[i].order_id].payment_received_at
               = Some(order_events[i].created_at)

-----------------------------------------------------------------------------
(* Signals applied again *)

\* C3: the payment-link detection (detect_payment_link, or
\* update_order_payment_link_sent of the mail sync) applied to an order whose
\* payment_link_sent flag is already true returns at once and changes no row and
\* writes no event: the flag and payment_link_sent_at keep their values
LinkDetectionAgainNoOp ==
    [][ \A p \in Procs : \A o \in OrderIds :
          ( /\ o \in DOMAIN orders
            /\ orders[o].payment_link_sent
            /\ \/ \E email_body \in EmailBodies :
                      HasSquareLink(email_body) /\ DetectPaymentLink(p, o, email_body)
               \/ \E subject \in LinkSubjects : UpdateOrderPaymentLinkSentSelect(p, o, subject) )
          => /\ orders' = orders
             /\ order_events' = order_events
             /\ pc'[p] = "idle"
             /\ resp'[p].body \in { [status |-> "ok", updated |-> FALSE,
                                     message |-> "Already marked"],
                                    [returned |-> FALSE] } ]_vars

\* the detector has answered "Already marked" when every order held the flag: the
\* order still has the timestamp and the one payment_link_sent event of the first
\* application
LinkDetectionAgainReached ==
    \E p \in Procs : \E o \in DOMAIN orders :
        /\ resp[p].op = "detect_payment_link"
        /\ resp[p].body.message = "Already marked"
        /\ DOMAIN orders = OrderIds
        /\ \A o2 \in OrderIds : orders[o2].payment_link_sent
        /\ orders[o].payment_link_sent_at = Some(1)
        /\ Cardinality({i \in 1..Len(order_events) :
                           /\ order_events[i].order_id = o
                           /\ order_events[i].event_type = "payment_link_sent"}) = 1

\* C4: while run_square_sync runs, an order that is already marked
\* payment_received is skipped: its row (payment_received_at, payment_amount and
\* shipping_cost included) stays as it is, no payment_received event is added for
\* it, and the step that selected it does not go on to the UPDATE
SquareSyncAgainSkips ==
    [][ \A p \in Procs :
          pc[p] \in {"sq_payment", "sq_select", "sq_update"} =>
              /\ \A o \in DOMAIN orders :
                     orders[o].payment_received =>
                         /\ orders'[o] = orders[o]
                         /\ AddedEvents(o, "payment_received") = {}
              /\ ( /\ pc[p] = "sq_select"
                   /\ loc[p].payments[loc[p].i].order_ids[loc[p].j] \in DOMAIN orders
                   /\ orders[loc[p].payments[loc[p].i].order_ids[loc[p].j]].payment_received )
                 => pc'[p] # "sq_update" ]_vars

\* a run over payments that an earlier run has matched is through its last
\* payment: every order they name was paid by that very Square payment, and the
\* run has updated nothing
SquareSyncAgainReached ==
    \E p \in Procs :
        /\ pc[p] = "sq_payment"
        /\ loc[p].i > Len(loc[p].payments)
        /\ loc[p].results.orders_updated = << >>
        /\ loc[p].results.errors = << >>
        /\ \A k \in 1..Len(loc[p].payments) :
               /\ loc[p].payments[k].order_ids # << >>
               /\ \A j \in 1..Len(loc[p].payments[k].order_ids) :
                      LET o == loc[p].payments[k].order_ids[j]
                      IN  /\ o \in DOMAIN orders
                          /\ orders[o].payment_received
                          /\ \E i \in 1..Len(order_events) :
                                 /\ order_events[i].order_id = o
                                 /\ order_events[i].source = "square_api"
                                 /\ order_events[i].event_data.square_payment_id
                                        = loc[p].payments[k].payment_id

-----------------------------------------------------------------------------
(* Square payments that name several orders *)

\* C8: for a payment whose description yields more than one order id, the UPDATE
\* of run_square_sync marks the order paid at this transaction's NOW() with one
\* payment_received event of its own, leaves payment_amount NULL and writes no
\* shipping_cost, in the row or in the event; and when the run returns, every
\* order such a payment names that is stored is marked paid
MultiOrderPaymentMarks ==
    [][ \A p \in Procs :
          /\ ( pc[p] = "sq_update" /\ Len(loc[p].payments[loc[p].i].order_ids) > 1 )
             => LET o == loc[p].payments[loc[p].i].order_ids[loc[p].j]
                IN  /\ orders'[o].payment_received
                    /\ orders'[o].payment_received_at = Some(now)
                    /\ orders'[o].payment_amount = NULL
                    /\ orders'[o].shipping_cost = orders[o].shipping_cost
                    /\ Cardinality(AddedEvents(o, "payment_received")) = 1
                    /\ order_events'[Len(order_events')].event_data.shipping_cost = NULL
          /\ ( pc[p] = "sq_payment" /\ pc'[p] = "idle" )
             => \A k \in 1..Len(loc[p].payments) :
                    Len(loc[p].payments[k].order_ids) > 1 =>
                        \A j \in 1..Len(loc[p].payments[k].order_ids) :
                            LET o == loc[p].payments[k].order_ids[j]
                            IN  o \in DOMAIN orders => orders[o].payment_received ]_vars

\* a run has returned having updated two orders from one Square payment: both
\* are paid, each at the time of its own multi-order event, with neither
\* payment_amount nor shipping_cost
MultiOrderPaymentReached ==
    \E p \in Procs :
        /\ resp[p].op = "run_square_sync"
        /\ Len(resp[p].body.orders_updated) = 2
        /\ resp[p].body.orders_updated[1].square_payment_id
               = resp[p].body.orders_updated[2].square_payment_id
        /\ \A n \in 1..2 :
               LET o == resp[p].body.orders_updated[n].order_id
               IN  /\ orders[o].payment_received
                   /\ orders[o].payment_amount = NULL
                   /\ orders[o].shipping_cost = NULL
                   /\ Truthy(orders[o].order_total)
                   /\ \E i \in 1..Len(order_events) :
                          /\ order_events[i].order_id = o
                          /\ order_events[i].event_type = "payment_received"
                          /\ order_events[i].event_data.multi_order_payment
                          /\ orders[o].payment_received_at = Some(order_events[i].created_at)

-----------------------------------------------------------------------------
(* Heuristic payment matching *)

\* the payment_received events the matchers wrote for a notification of amount a
\* from payer n (n = NULL: the subject names no payer)
NotificationEvents(a, n) ==
    { i \in 1..Len(order_events) :
        /\ order_events[i].event_type = "payment_received"
        /\ \/ /\ order_events[i].source = "gmail_sync"
              /\ order_events[i].event_data = [amount |-> a, customer |-> n]
           \/ /\ order_events[i].source = "square_notification"
              /\ order_events[i].event_data.payment_amount = a
              /\ order_events[i].event_data.customer_name = n }

\* C5: however often a payment notification, which is its amount and its payer,
\* is processed by match_payment_to_order or by detect_payment_received, the log
\* holds at most one payment_received event written for it, so that at most one
\* order was marked paid for it
OnePaymentPerNotification ==
    \A a \in Amounts : \A n \in PayerNames \cup {NULL} :
        Cardinality(NotificationEvents(a, n)) <= 1
\* the candidates of match_payment_to_order for the email that have a declared
\* total the amount reaches 95% of
EligibleCandidates(email) ==
    { o \in MatchCandidates(email.payer) :
        /\ Truthy(orders[o].order_total)
        /\ email.amount * 100 >= Val(orders[o].order_total) * 95 }

\* C6: when match_payment_to_order is called and some unpaid order whose
\* customer or company name contains the payer's first token has a declared total
\* with amount >= 0.95 * total, the call does not end without a match, the order
\* it picks and marks is one of those, none of them is dated later, and no other
\* row changes
MatchMarksMostRecentEligible ==
    [][ \A p \in Procs :
          /\ ( pc[p] = "idle" /\ pc'[p] = "idle"
               /\ resp'[p].op = "match_payment_to_order" )
             => \A email \in PaymentEmails :
                    MatchPaymentToOrderSelect(p, email) => EligibleCandidates(email) = {}
          /\ ( pc[p] = "idle" /\ pc'[p] = "match_update"
               /\ EligibleCandidates(loc'[p].email) # {} )
             => /\ loc'[p].order_id \in EligibleCandidates(loc'[p].email)
                /\ \A o \in EligibleCandidates(loc'[p].email) :
                       orders[loc'[p].order_id].order_date >= orders[o].order_date
          /\ ( pc[p] = "match_update" /\ EligibleCandidates(loc[p].email) # {} )
             => \E o \in EligibleCandidates(loc[p].email) :
                    /\ orders'[o].payment_received
                    /\ \A o2 \in DOMAIN orders \ {o} : orders'[o2] = orders[o2] ]_vars

\* the step is one of process p: nothing of another process changes
StepOf(p) ==
    \A q \in Procs \ {p} : pc'[q] = pc[q] /\ loc'[q] = loc[q] /\ resp'[q] = resp[q]

\* the payment is below 95% of the declared total of the order
BelowThreshold(amount, o) ==
    /\ orders[o].order_total # NULL
    /\ amount * 100 < Val(orders[o].order_total) * 95

\* C7: a payment below 95% of the declared total of every candidate order is not
\* matched, by match_payment_to_order (candidates: the unpaid orders its query
\* returns for the payer) or by detect_payment_received (candidates: the unpaid
\* orders with a total).  A call goes on to its UPDATE only when some candidate
\* is not below the threshold; otherwise it ends at once, changes no row, writes
\* no event and reports no match
BelowThresholdNoMatch ==
    [][ \A p \in Procs :
          /\ ( pc[p] = "idle" /\ pc'[p] = "match_update" )
             => \E o \in MatchCandidates(loc'[p].email.payer) :
                    ~BelowThreshold(loc'[p].email.amount, o)
          /\ ( pc[p] = "idle" /\ pc'[p] = "dpr_update" )
             => \E o \in DetectCandidates : ~BelowThreshold(loc'[p].payment_amount, o)
          /\ ( pc[p] = "idle" /\ pc'[p] = "idle" /\ StepOf(p) )
             => /\ orders' = orders
                /\ order_events' = order_events
                /\ resp'[p].op = "match_payment_to_order"
                       => resp'[p].body = [returned |-> FALSE]
                /\ resp'[p].op = "detect_payment_received"
                       => /\ ~resp'[p].body.updated
                          /\ resp'[p].body.message \in
                                 { "Could not match payment to order",
                                   "Not a payment notification" } ]_vars

\* match_payment_to_order has returned False although both stored orders are
\* candidates of every payer: they are unpaid, named Sal Kim, and of total 100,
\* which only the amounts below 95 fail to reach
BelowThresholdReached ==
    \E p \in Procs :
        /\ resp[p] = Resp("match_payment_to_order", 0, [returned |-> FALSE])
        /\ DOMAIN orders = OrderIds
        /\ \A o \in OrderIds :
               /\ ~orders[o].payment_received
               /\ orders[o].payment_received_at = NULL
               /\ orders[o].payment_amount = NULL
               /\ orders[o].customer_name = SalKim
               /\ orders[o].order_total = Some(100)
        /\ Len(order_events) = 2

-----------------------------------------------------------------------------
(* Checkpoints set again, and undone *)

\* process p completes update_checkpoint for checkpoint c of order o with a
\* request body whose value is v
CheckpointRequestDone(p, o, c, v) ==
    \/ \E body \in CheckpointRequests :
           /\ body.checkpoint = c
           /\ body.value = v
           /\ UpdateCheckpoint(p, o, body)
    \/ /\ pc[p] = "uc_update"
       /\ loc[p].order_id = o
       /\ loc[p].update.checkpoint = c
       /\ loc[p].body.value = v
       /\ UpdateCheckpointUpdate(p)

\* the event type of the undo of a checkpoint
UndoneEvent(c) ==
    CASE c = "payment_link_sent" -> "payment_link_sent_undone"
      [] c = "payment_received" -> "payment_received_undone"
      [] c = "sent_to_warehouse" -> "sent_to_warehouse_undone"
      [] c = "warehouse_confirmed" -> "warehouse_confirmed_undone"
      [] c = "bol_sent" -> "bol_sent_undone"
      [] c = "is_complete" -> "is_complete_undone"

\* C9: a checkpoint request with value false for a checkpoint that a request has
\* set leaves the flag false and its timestamp NULL, as they were before the
\* forward transition, and the log of the order then holds the forward event
\* followed by the <checkpoint>_undone event this request adds
UndoRestoresCheckpoint ==
    [][ \A p \in Procs : \A o \in OrderIds : \A c \in Checkpoints :
          ( /\ o \in DOMAIN orders
            /\ orders[o][c]
            /\ CheckpointRequestDone(p, o, c, FALSE) )
          => /\ ~orders'[o][c]
             /\ orders'[o][TimestampField(c)] = NULL
             /\ Len(order_events') = Len(order_events) + 1
             /\ order_events'[Len(order_events')].order_id = o
             /\ order_events'[Len(order_events')].event_type = UndoneEvent(c)
             /\ \E i \in 1..Len(order_events) :
                    /\ order_events[i].order_id = o
                    /\ order_events[i].event_type = c ]_vars

\* C10: update_checkpoint for a checkpoint whose flag is already true leaves the
\* flag true and its timestamp at the value the first transition stamped
CheckpointAgainKeepsStamp ==
    [][ \A p \in Procs : \A o \in OrderIds : \A c \in Checkpoints :
          ( /\ o \in DOMAIN orders
            /\ orders[o][c]
            /\ CheckpointRequestDone(p, o, c, TRUE) )
          => /\ orders'[o][c]
             /\ orders'[o][TimestampField(c)] = orders[o][TimestampField(c)] ]_vars

-----------------------------------------------------------------------------
(* The event log *)

\* C11: the event log is append-only: whatever operation of the service takes a
\* step, every event of the log before the step is in the log after it, at the
\* same place and with the same order_id, event_type, payload, source and
\* creation time
EventsAppendOnly ==
    [][ /\ Len(order_events') >= Len(order_events)
        /\ SubSeq(order_events', 1, Len(order_events)) = order_events ]_vars


\* the time at which the sweep that gave p its last response ran its query
PreviousSweepTime(p) ==
    IF resp[p].body.alerts_created = 0 THEN now ELSE now - 1

\* no order came to be sent more than a day ago since the previous sweep of p
NoneAgedSince(p) ==
    \A o \in DOMAIN orders : TrustedUnpaid(o, now) => TrustedUnpaid(o, PreviousSweepTime(p))

\* C12: a sweep that runs right after another sweep, with no request in
\* between and no order newly past the one-day mark, inserts no alert and
\* reports alerts_created = 0
SweepAgainCreatesNone ==
    [][ \A p \in Procs :
          ( /\ pc[p] = "cpa_insert"
            /\ pc'[p] = "idle"
            /\ resp[p].op = "check_payment_alerts"
            /\ NoneAgedSince(p) )
          => /\ order_alerts' = order_alerts
             /\ resp'[p].body.alerts_created = 0 ]_vars

\* a second sweep has reported zero after the first one alerted on an order
\* that still qualifies
SweepAgainReached ==
    /\ now = 2
    /\ resp["p1"].op = "check_payment_alerts"
    /\ resp["p1"].body.alerts_created = 0
    /\ \E o \in DOMAIN orders : TrustedUnpaid(o, 1) /\ HasUnresolvedAlert(o)

\* the unresolved trusted_unpaid alerts of an order
UnresolvedAlerts(order_id) ==
    { i \in 1..Len(order_alerts) :
        /\ order_alerts[i].order_id = order_id
        /\ order_alerts[i].alert_type = "trusted_unpaid"
        /\ ~order_alerts[i].is_resolved }

\* C13: however two sweeps interleave, an order has at most one unresolved
\* trusted_unpaid alert
OneUnresolvedAlert ==
    \A o \in DOMAIN orders : Cardinality(UnresolvedAlerts(o)) <= 1


\* the events of one type logged for an order
EventsOfType(order_id, event_type) ==
    { i \in 1..Len(order_events) :
        /\ order_events[i].order_id = order_id
        /\ order_events[i].event_type = event_type }

\* C14: when two processes handle the same signal for an order concurrently,
\* the transition is applied once: the order has at most one payment_link_sent
\* event and at most one payment_received event
OneEventPerSignal ==
    \A o \in DOMAIN orders :
        /\ Cardinality(EventsOfType(o, "payment_link_sent")) <= 1
        /\ Cardinality(EventsOfType(o, "payment_received")) <= 1


\* the order run_square_sync of p is looking up
SquareLookupId(p) == loc[p].payments[loc[p].i].order_ids[loc[p].j]

\* C15: an operation given the identifier of an order that does not exist
\* never gives the result it gives for an order that exists and is already
\* marked: no step of detect_payment_link or update_order_payment_link_sent is
\* the step of both calls, and run_square_sync adds to its results for a
\* missing order and not for a paid one
MissingReportedDistinctly ==
    [][ \A p \in Procs :
          /\ \A missing \in OrderIds \ DOMAIN orders, o \in DOMAIN orders :
                orders[o].payment_link_sent =>
                  /\ \A email_body \in {b \in EmailBodies : HasSquareLink(b)} :
                        ~ ( /\ DetectPaymentLink(p, missing, email_body)
                            /\ DetectPaymentLink(p, o, email_body) )
                  /\ \A subject \in LinkSubjects :
                        ~ ( /\ UpdateOrderPaymentLinkSentSelect(p, missing, subject)
                            /\ UpdateOrderPaymentLinkSentSelect(p, o, subject) )
          /\ (pc[p] = "sq_select" /\ pc'[p] # "sq_select" /\ loc'[p].op = "run_square_sync") =>
                /\ SquareLookupId(p) \notin DOMAIN orders
                      => loc'[p].results # loc[p].results
                /\ (SquareLookupId(p) \in DOMAIN orders
                    /\ orders[SquareLookupId(p)].payment_received)
                      => loc'[p].results = loc[p].results ]_vars


\* C16: in a run of run_gmail_sync every email that names an existing order
\* has its order update and its event committed, whatever happened to the
\* emails of the run before it
LaterEmailsApplied ==
    [][ \A p \in Procs :
          ( /\ pc[p] = "gm_email"
            /\ loc[p].i <= Len(loc[p].emails)
            /\ loc[p].emails[loc[p].i].order_id \in DOMAIN orders )
          => /\ order_events' = Append(order_events, GmailEvent(loc[p].emails[loc[p].i], now))
             /\ orders'[loc[p].emails[loc[p].i].order_id].updated_at = now ]_vars


\* the error entry a failed statement leaves for an order
FailureEntry(order_id) == [order_id |-> order_id, error |-> "exception"]

\* C17: in a batch run, the step for an order either commits its row and its
\* event and reports no error, or fails: it then adds an error entry for that
\* order and leaves both tables, with what earlier orders of the batch
\* committed, as they were
BatchFailureRolledBack ==
    [][ \A p \in Procs :
          /\ pc[p] = "sq_update" =>
                \/ /\ loc'[p].results.errors =
                          Append(loc[p].results.errors, FailureEntry(SquareLookupId(p)))
                   /\ orders' = orders
                   /\ order_events' = order_events
                \/ /\ loc'[p].results.errors = loc[p].results.errors
                   /\ orders'[SquareLookupId(p)].payment_received
                   /\ Len(order_events') = Len(order_events) + 1
                   /\ order_events'[Len(order_events')].order_id = SquareLookupId(p)
          /\ (pc[p] = "b2b_order" /\ loc[p].i <= Len(loc[p].orders_list)) =>
                \/ /\ loc'[p].errors =
                          Append(loc[p].errors, FailureEntry(loc[p].orders_list[loc[p].i].id))
                   /\ orders' = orders
                   /\ order_events' = order_events
                \/ /\ loc'[p].errors = loc[p].errors
                   /\ loc[p].orders_list[loc[p].i].id \in DOMAIN orders'
                   /\ Len(order_events') = Len(order_events) + 1
                   /\ order_events'[Len(order_events')].order_id =
                          loc[p].orders_list[loc[p].i].id ]_vars

\* a Square run has returned after the update of 5302 failed: 5301, paid earlier
\* in the run, is still paid, and 5302 is reported and unpaid
BatchFailureReached ==
    /\ resp["p1"].op = "run_square_sync"
    /\ Len(resp["p1"].body.orders_updated) = 1
    /\ resp["p1"].body.orders_updated[1].order_id = "5301"
    /\ resp["p1"].body.errors = <<FailureEntry("5302")>>
    /\ DOMAIN orders = OrderIds
    /\ orders["5301"].payment_received
    /\ ~orders["5302"].payment_received
    /\ EventsOfType("5302", "payment_received") = {}


\* C18: storing an order again, by a re-sync or by another order email, never
\* changes a warehouse slot of the order that is not null
FilledSlotsKept ==
    [][ \A o \in DOMAIN orders \cap DOMAIN orders' :
          /\ orders[o].warehouse_1 # NULL => orders'[o].warehouse_1 = orders[o].warehouse_1
          /\ orders[o].warehouse_2 # NULL => orders'[o].warehouse_2 = orders[o].warehouse_2
      ]_vars


\* the checkpoints from the most advanced to the least advanced
MostAdvancedFirst ==
    [i \in 1..Len(valid_checkpoints) |-> valid_checkpoints[Len(valid_checkpoints) + 1 - i]]

\* the status that stands for a checkpoint
StatusOfCheckpoint(c) ==
    CASE c = "is_complete" -> "complete"
      [] c = "bol_sent" -> "awaiting_shipment"
      [] c = "warehouse_confirmed" -> "needs_bol"
      [] c = "sent_to_warehouse" -> "awaiting_warehouse"
      [] c = "payment_received" -> "needs_warehouse_order"
      [] c = "payment_link_sent" -> "awaiting_payment"

\* the status of the most advanced true flag of a row
MostAdvancedStatus(row) ==
    LET set == {i \in 1..Len(MostAdvancedFirst) : row[MostAdvancedFirst[i]]}
    IN  IF set = {} THEN "needs_payment_link"
        ELSE StatusOfCheckpoint(
                 MostAdvancedFirst[CHOOSE i \in set : \A j \in set : i <= j])

\* C19: for every combination of the six flags the status the view reports for
\* an order is that of its most advanced true flag, and needs_payment_link
\* when no flag is true
StatusIsMostAdvancedFlag ==
    [][ \A p \in Procs : \A o \in DOMAIN orders :
          (pc[p] = "idle" /\ GetOrder(p, o))
          => resp'[p].body.order.current_status = MostAdvancedStatus(orders[o]) ]_vars

\* the status was read of an order whose flags are not a prefix of the
\* sequence: BOL sent, never confirmed by the warehouse, never paid
StatusIsMostAdvancedFlagReached ==
    /\ resp["p1"].op = "get_order"
    /\ resp["p1"].status = 200
    /\ resp["p1"].body.order.current_status = "awaiting_shipment"
    /\ orders["5301"].bol_sent
    /\ orders["5301"].payment_link_sent
    /\ ~orders["5301"].payment_received
    /\ ~orders["5301"].warehouse_confirmed
    /\ ~orders["5301"].is_complete


\* C20: update_checkpoint for a valid checkpoint of an existing order succeeds
\* whatever the other flags are, sets the flag and stamps its timestamp, and
\* leaves the other five flags and their timestamps as they were
CheckpointSetsOnlyItsFlag ==
    [][ \A p \in Procs : \A o \in DOMAIN orders :
          (pc[p] \in {"idle", "uc_update"} /\ resp'[p].op = "update_checkpoint"
           /\ pc'[p] = "idle")
          => IF resp'[p].status = 200
             THEN LET c == resp'[p].body.checkpoint
                  IN  CheckpointRequestDone(p, o, c, TRUE)
                      => /\ orders'[o][c]
                         /\ orders'[o][TimestampField(c)] = Some(now)
                         /\ \A d \in Checkpoints \ {c} :
                                /\ orders'[o][d] = orders[o][d]
                                /\ orders'[o][TimestampField(d)] =
                                       orders[o][TimestampField(d)]
             ELSE \A c \in Checkpoints : ~CheckpointRequestDone(p, o, c, TRUE) ]_vars

\* a request has marked complete an order that was never paid nor sent on
CheckpointSetsOnlyItsFlagReached ==
    /\ resp["p1"].op = "update_checkpoint"
    /\ resp["p1"].status = 200
    /\ resp["p1"].body.checkpoint = "is_complete"
    /\ orders["5301"].is_complete
    /\ orders["5301"].completed_at = Some(now - 1)
    /\ \A d \in Checkpoints \ {"is_complete"} :
           ~orders["5301"][d] /\ orders["5301"][TimestampField(d)] = NULL


\* the columns that hold a text or a value that may be missing
ValueColumns ==
    { "customer_name", "company_name", "order_total", "payment_amount", "shipping_cost",
      "warehouse_1", "warehouse_2", "rl_quote_no", "tracking", "pro_number" }

\* C21: no operation that updates a stored order, given a signal that leaves
\* a value out, replaces a stored value by null or by the empty text
OmittedValuesKept ==
    [][ \A o \in DOMAIN orders \cap DOMAIN orders' : \A f \in ValueColumns :
          orders[o][f] # << >> => orders'[o][f] # << >> ]_vars


\* C22: an order_id is stored once and for good: however parse_email,
\* sync_order_from_b2bwave and update_order of two processes interleave, a
\* stored order stays stored under its order_id as the record it was created
\* as (created_at does not change), and its creation is logged at most once
OrderIdUniqueImmutable ==
    [][ /\ \A o \in DOMAIN orders :
             /\ o \in DOMAIN orders'
             /\ orders'[o].created_at = orders[o].created_at
        /\ \A o \in DOMAIN orders' :
             Cardinality({i \in 1..Len(order_events') :
                             /\ order_events'[i].order_id = o
                             /\ order_events'[i].event_type = "order_created"}) <= 1 ]_vars

\* two order emails for a new order raced: one request created it, the INSERT
\* of the other met the stored order_id
OrderIdUniqueImmutableReached ==
    /\ resp["p1"].op = "parse_email"
    /\ resp["p1"].status = 200
    /\ resp["p1"].body.status = "created"
    /\ resp["p2"].op = "parse_email"
    /\ resp["p2"].status = 500
    /\ "5301" \in DOMAIN orders
    /\ Cardinality(EventsOfType("5301", "order_created")) = 1


Description5317And5319 ==
    <<"5", "3", "1", "7", " ", "&", " ", "5", "3", "1", "9",
      " ", "G", "&", "B", " ", "C", "F", "C">>

Description5184 ==
    <<"5", "1", "8", "4", " ", "B", "r", "o", "k", "e", " ", "a", "n", "d", " ",
      "P", "o", "o", "r", " ", "C", "F", "C">>

\* the indexes at which the number id is seen in description: as a whole
\* number, or as the (at most five) digits the description starts with
SeenAt(description, id) ==
    {k \in 1..Len(description) :
        /\ k + Len(id) - 1 <= Len(description)
        /\ SubSeq(description, k, k + Len(id) - 1) = id
        /\ WordBoundaryBefore(description, k)
        /\ \/ WordBoundaryAfter(description, k + Len(id) - 1)
           \/ k = 1 /\ (Len(id) = 5 \/ ~IsDigit(description[Len(id) + 1]))}

FirstSeenAt(description, id) ==
    CHOOSE k \in SeenAt(description, id) : \A j \in SeenAt(description, id) : k <= j

LabelledIdentifierReturned ==
    \A p \in Procs :
        resp[p].op = "extract_order_id"
        => /\ resp[p].body.id # NULL => resp[p].body.order_id = resp[p].body.id
           /\ (\A k \in 1..Len(resp[p].body.text) : ~IsDigit(resp[p].body.text[k]))
                 => resp[p].body.order_id = NULL


\* the warehouses the prefixes are mapped to
MappedWarehouses(sku_prefixes) ==
    {WarehouseMapping[sku_prefixes[i]] : i \in 1..Len(sku_prefixes)}

\* C25: an order stored for the first time whose SKU prefixes all map to one
\* warehouse (HSS and NSN) has that warehouse in warehouse_1 and nothing in
\* warehouse_2; for any prefixes, the two slots never hold the same warehouse
SameWarehouseResolvedOnce ==
    [][ \A d \in ResolvePayloads :
          ( /\ pc["p1"] = "idle"
            /\ resp'["p1"].op = "sync_order_from_b2bwave"
            /\ d.id \notin DOMAIN orders
            /\ SyncOrderFromB2bwave("p1", d) )
          => LET row == orders'[d.id]
             IN  /\ \A w \in MappedWarehouses(d.sku_prefixes) :
                       MappedWarehouses(d.sku_prefixes) = {w}
                       => row.warehouse_1 = Some(w) /\ row.warehouse_2 = NULL
                 /\ row.warehouse_1 # NULL => row.warehouse_2 # row.warehouse_1 ]_vars

\* an order of HSS and NSN products was stored: the only prefixes of the inputs
\* that give Cabinet & Stone alone
SameWarehouseResolvedOnceReached ==
    /\ resp["p1"].op = "sync_order_from_b2bwave"
    /\ Len(order_events) = 1
    /\ "5301" \in DOMAIN orders
    /\ orders["5301"].warehouse_1 = Some("Cabinet & Stone")
    /\ orders["5301"].warehouse_2 = NULL


\* the batch operation of process p ends in this step for want of credentials
EndsUnconfigured(p) ==
    /\ pc[p] = "idle"
    /\ pc'[p] = "idle"
    /\ resp'[p].op \in {"run_gmail_sync", "run_square_sync", "sync_from_b2bwave"}
    /\ \/ RunGmailSync(p, FALSE, << >>)
       \/ RunSquareSync(p, FALSE, << >>)
       \/ SyncFromB2bwave(p, FALSE, << >>)

\* C26: a batch operation (run_gmail_sync, run_square_sync, sync_from_b2bwave)
\* whose source has no credentials ends with one result that says so, not with
\* an error raised, and changes no order, event or alert
UnconfiguredEndsWithResult ==
    [][ \A p \in Procs :
          EndsUnconfigured(p)
          => /\ resp'[p].status < 400
             /\ resp'[p].body.status \in {"skipped", "disabled", "not_configured", "unavailable"}
             /\ UNCHANGED <<orders, order_events, order_alerts>> ]_vars


\* what a re-sync and a re-parse have to leave alone
ProgressColumns ==
    Checkpoints \cup {TimestampField(c) : c \in Checkpoints}
        \cup {"payment_amount", "shipping_cost", "tracking", "pro_number"}

\* the step stores an order again: a sync or the write of an order email
StoresAgain(p) ==
    \/ /\ pc[p] = "idle"
       /\ resp'[p].op = "sync_order_from_b2bwave"
       /\ \E order_data \in IdentityPayloads : SyncOrderFromB2bwave(p, order_data)
    \/ /\ pc[p] = "pe_write"
       /\ ParseEmailWrite(p)

\* C27: a re-sync or re-parse of a stored order leaves its six flags, their
\* timestamps, payment_amount, shipping_cost, tracking and pro_number as they
\* are, also between the steps of an update_checkpoint or a payment match of
\* another process; a flag set by the other process is not lost
StoringAgainKeepsProgress ==
    [][ /\ \A p \in Procs :
             StoresAgain(p)
             => \A o \in DOMAIN orders : \A f \in ProgressColumns :
                    orders'[o][f] = orders[o][f]
        /\ \A o \in DOMAIN orders : \A c \in Checkpoints :
             orders[o][c] => orders'[o][c] ]_vars

\* the order was marked paid by one process and synced again by the other, the
\* sync having come last
StoringAgainKeepsProgressReached ==
    /\ orders["5301"].payment_received
    /\ resp["p1"].op = "sync_order_from_b2bwave"
    /\ resp["p2"].op \in {"update_checkpoint", "run_square_sync"}
    /\ Len(order_events) >= 2
    /\ order_events[Len(order_events)].event_type = "b2bwave_sync"
    /\ order_events[Len(order_events) - 1].event_type = "payment_received"


\* C28: detect_payment_received marks an order paid only when the notification
\* names a payer, the order has a customer name, and the first names of the two
\* are equal: no order is matched on the amount alone
PaidOnlyOnFirstName ==
    [][ \A p \in Procs :
          ( /\ pc[p] = "dpr_update"
            /\ pc'[p] = "idle"
            /\ loc[p].order_id \in DOMAIN orders
            /\ orders'[loc[p].order_id].payment_received
            /\ ~orders[loc[p].order_id].payment_received )
          => /\ loc[p].customer_name # NULL
             /\ orders[loc[p].order_id].customer_name # Empty
             /\ FirstNameEqual(loc[p].customer_name,
                               orders[loc[p].order_id].customer_name) ]_vars


\* the warehouses of the prefixes in the order the prefixes are first seen, each once
FirstSeenWarehouses(sku_prefixes) ==
    UniqueLoop([i \in 1..Len(sku_prefixes) |-> WarehouseMapping[sku_prefixes[i]]],
               1, {}, << >>)

\* C29: an order stored for the first time has in warehouse_1 the warehouse of
\* its first SKU prefix and in warehouse_2 the next distinct warehouse in the
\* order the prefixes are seen; further warehouses are dropped; the same
\* prefixes always give the same slots
SlotsFollowFirstSeenOrder ==
    [][ \A d \in ResolvePayloads :
          ( /\ pc["p1"] = "idle"
            /\ resp'["p1"].op = "sync_order_from_b2bwave"
            /\ d.id \notin DOMAIN orders
            /\ SyncOrderFromB2bwave("p1", d) )
          => /\ orders'[d.id].warehouse_1
                   = WarehouseSlot(FirstSeenWarehouses(d.sku_prefixes), 1)
             /\ orders'[d.id].warehouse_2
                   = WarehouseSlot(FirstSeenWarehouses(d.sku_prefixes), 2) ]_vars


\* the rows of order_line_items of an order, in id order, as sku and quantity
StoredLineItems(order_id) ==
    LET rows == SelectSeq(order_line_items, LAMBDA r : r.order_id = order_id)
    IN  [i \in 1..Len(rows) |-> [sku |-> rows[i].sku, quantity |-> rows[i].quantity]]

\* C30: when sync_order_from_b2bwave has stored an order, the stored line items
\* of the order are exactly those of the payload: the earlier ones are gone and
\* the new ones are there
LineItemsReplaced ==
    [][ \A d \in ItemPayloads :
          ( /\ pc["p1"] = "idle"
            /\ resp'["p1"].op = "sync_order_from_b2bwave"
            /\ SyncOrderFromB2bwave("p1", d) )
          => (StoredLineItems(d.id))' = LineItemsOf(d.order_products) ]_vars


\* the entry of a result list names the amount
NamesAmount(list, amount) ==
    \E i \in 1..Len(list) : "amount" \in DOMAIN list[i] /\ list[i].amount = amount

\* C31: a payment signal that is attributed to no order changes no order and
\* is recorded as unmatched with its amount, in the result returned or in the
\* event trail: a Square payment email without a matching order
\* (run_gmail_sync), a notification without one (detect_payment_received), a
\* Square payment whose description names no order or only orders that do not
\* exist (run_square_sync)
UnmatchedSignalRecorded ==
    [][ /\ \A email \in PaymentEmails :
             ( /\ pc["p1"] = "idle"
               /\ pc'["p1"] = "idle"
               /\ resp'["p1"].op = "run_gmail_sync"
               /\ GmailPaymentSelect("p1", email) )
             => /\ orders' = orders
                /\ \/ Len(order_events') > Len(order_events)
                   \/ NamesAmount(resp'["p1"].body.errors, email.amount)
        /\ ( /\ pc["p1"] = "idle"
             /\ pc'["p1"] = "idle"
             /\ resp'["p1"].op = "detect_payment_received"
             /\ ~resp'["p1"].body.updated
             /\ "payment_amount" \in DOMAIN resp'["p1"].body )
             => /\ orders' = orders
                /\ resp'["p1"].body.message = "Could not match payment to order"
        /\ ( /\ pc["p1"] = "sq_payment"
             /\ pc'["p1"] = "idle"
             /\ resp'["p1"].op = "run_square_sync" )
             => \A k \in 1..Len(loc["p1"].payments) :
                  (\A j \in 1..Len(loc["p1"].payments[k].order_ids) :
                       loc["p1"].payments[k].order_ids[j] \notin DOMAIN orders)
                  => NamesAmount(resp'["p1"].body.payments_unmatched,
                                 loc["p1"].payments[k].amount) ]_vars


\* the sum of the three counts of a result of run_gmail_sync
Counts(results) ==
    results.payment_links + results.rl_quotes + results.tracking_numbers

\* the counts a run of run_gmail_sync has reached: those of its result once it
\* has returned, those of its results while it runs
RunCounts(pcs, locs, resps) ==
    IF pcs["p1"] = "gm_email" THEN Counts(locs["p1"].results)
    ELSE IF pcs["p1"] = "idle" /\ resps["p1"].op = "run_gmail_sync"
    THEN Counts(resps["p1"].body)
    ELSE 0

\* C32: the counts run_gmail_sync returns are counts of orders changed: every
\* step of a run that raises payment_links, rl_quotes or tracking_numbers by
\* one changes a stored order, and a step that changes none raises no count, so
\* an email for an already-marked or non-existent order is not counted
CountsAreChanges ==
    [][ ( /\ \/ pc["p1"] \in {"gm_email", "gm_link"}
             \/ pc["p1"] = "idle" /\ resp'["p1"].op = "run_gmail_sync"
          /\ pc'["p1"] # "gm_email" \/ pc["p1"] = "gm_email" )
        => RunCounts(pc', loc', resp')
             - (IF pc["p1"] = "gm_email" THEN Counts(loc["p1"].results) ELSE 0)
             = (IF orders' # orders THEN 1 ELSE 0) ]_vars


\* the token a call of get_gmail_access_token returns, if it returns one, is
\* the cached one and the clock is before its recorded expiry and before the
\* end of the life it was issued with
TokenReturnedInTime(p) ==
    resp'[p].body.token # NULL
        => /\ resp'[p].body.token = access_token'
           /\ now < Val(token_expires')
           /\ now < Val(resp'[p].body.token) + TokenLife

\* what a step of get_gmail_access_token does, with the request for a new
\* token owed in every case (always) or only when Gmail is configured
TokenStep(p, always) ==
    /\ \A configured \in BOOLEAN :
         ( /\ pc[p] = "idle"
           /\ GetGmailAccessTokenCheck(p, configured) )
         => IF access_token # NULL /\ token_expires # NULL /\ now < Val(token_expires)
            THEN /\ pc'[p] = "idle"
                 /\ resp'[p].body = [token |-> access_token, requested |-> FALSE]
                 /\ TokenReturnedInTime(p)
            ELSE IF always \/ configured
            THEN pc'[p] = "gt_request"
            ELSE /\ pc'[p] = "idle"
                 /\ resp'[p].body = [token |-> NULL, requested |-> FALSE]
    /\ \A answer \in TokenAnswers :
         ( /\ pc[p] = "gt_request"
           /\ GetGmailAccessTokenRequest(p, answer) )
         => /\ pc'[p] = "idle"
            /\ resp'[p].status = 0
            /\ resp'[p].body.requested
            /\ TokenReturnedInTime(p)
            /\ answer = "error"
                 => /\ resp'[p].body.token = NULL
                    /\ UNCHANGED <<access_token, token_expires>>

\* C33: get_gmail_access_token returns the cached token without a request
\* while the clock is before the cached expiry, goes on to request a new token
\* on a call at or after the expiry or with no token cached, returns no token
\* past its recorded expiry, and returns no token, without raising, when the
\* request fails.  As stated: the request is owed whenever no valid token is
\* cached
TokenRequestedWheneverStale ==
    [][ \A p \in Procs : TokenStep(p, TRUE) ]_vars

\* C33, amended: the same, with the request owed only when Gmail is configured;
\* without the credentials the call returns no token and requests none
TokenCachedOrRefreshed ==
    [][ \A p \in Procs : TokenStep(p, FALSE) ]_vars

\* C33: a call has returned the cached token, issued by an earlier request, at
\* the last time before its expiry
TokenCachedOrRefreshedReached ==
    \E p \in Procs :
        /\ pc[p] = "idle"
        /\ resp[p].op = "get_gmail_access_token"
        /\ ~resp[p].body.requested
        /\ resp[p].body.token # NULL
        /\ resp[p].body.token = access_token
        /\ now + 1 = Val(token_expires)


\* a finished request for checkpoint on order_id has failed with 400 or 404 and
\* written nothing, when the name is not valid or the order does not exist
CheckpointRefused(p, checkpoint, order_id) ==
    IF checkpoint \notin Checkpoints
    THEN /\ resp'[p].status = 400
         /\ orders' = orders
         /\ order_events' = order_events
    ELSE IF order_id \notin DOMAIN orders
    THEN /\ resp'[p].status = 404
         /\ orders' = orders
         /\ order_events' = order_events
    ELSE resp'[p].status = 200

\* C34: update_checkpoint with a checkpoint name outside the six valid names
\* fails with 400, and for an order_id that does not exist with 404; either way
\* every order and the event log are as before, no event is written
FailedCheckpointWritesNothing ==
    [][ /\ \A order_id \in OrderIds, body \in CheckpointRequests :
             ( /\ pc["p1"] = "idle"
               /\ UpdateCheckpoint("p1", order_id, body) )
             => CheckpointRefused("p1", body.checkpoint, order_id)
        /\ ( /\ pc["p1"] = "uc_update"
             /\ UpdateCheckpointUpdate("p1") )
             => CheckpointRefused("p1", loc["p1"].body.checkpoint, loc["p1"].order_id) ]_vars

\* C34: a request has failed with 404 after an earlier one was stored and logged
FailedCheckpointWritesNothingReached ==
    /\ pc["p1"] = "idle"
    /\ resp["p1"].op = "update_checkpoint"
    /\ resp["p1"].status = 404
    /\ Len(order_events) > 0


\* C35: the checkpoint flags are monotonic: a step of a checkpoint update, a
\* detection, a payment match, a sync, an email parse or an order patch leaves
\* every flag that is true true, and leaves its timestamp set
FlagsMonotonic ==
    [][ \A order_id \in DOMAIN orders \cap DOMAIN orders' :
          \A c \in Checkpoints :
            orders[order_id][c]
              => /\ orders'[order_id][c]
                 /\ orders[order_id][TimestampField(c)] # NULL
                      => orders'[order_id][TimestampField(c)] # NULL ]_vars

\* C35: an order whose payment was recorded has been written again later, and
\* is still paid with its timestamp
FlagsMonotonicReached ==
    \E order_id \in DOMAIN orders :
        /\ orders[order_id].payment_received
        /\ orders[order_id].payment_received_at # NULL
        /\ orders[order_id].updated_at > Val(orders[order_id].payment_received_at)


\* C36: in every reachable state an order with a payment_amount or a
\* shipping_cost is marked payment_received: the operations that write an
\* amount or a shipping cost set the flag in the same UPDATE
AmountImpliesReceived ==
    \A order_id \in DOMAIN orders :
        (orders[order_id].payment_amount # NULL \/ orders[order_id].shipping_cost # NULL)
            => orders[order_id].payment_received

\* C36: an order has been given a payment amount and a shipping cost
AmountImpliesReceivedReached ==
    \E order_id \in DOMAIN orders :
        /\ orders[order_id].payment_amount # NULL
        /\ orders[order_id].shipping_cost # NULL
        /\ orders[order_id].payment_received


\* the payment_received events of an order written by detect_payment_received,
\* match_payment_to_order and run_square_sync
AutomaticPayments(order_id) ==
    { i \in EventsOfType(order_id, "payment_received") :
        order_events[i].source \in {"square_notification", "gmail_sync", "square_api"} }

\* the amount of the payment an event was written for
EventAmount(ev) ==
    IF ev.source = "gmail_sync" THEN ev.event_data.amount
    ELSE ev.event_data.payment_amount

\* C37: under any interleaving of the automatic payment paths an order receives
\* at most one payment_received event from them, and its payment_amount is the
\* amount of that one payment
OnePaymentPerOrder ==
    \A order_id \in DOMAIN orders :
        /\ Cardinality(AutomaticPayments(order_id)) <= 1
        /\ \A i \in AutomaticPayments(order_id) :
             orders[order_id].payment_amount = Some(EventAmount(order_events[i]))


\* C38: heuristic payment matching (match_payment_to_order,
\* detect_payment_received) never marks as paid an order without a declared
\* total: an order that becomes paid has an order_total that is neither null
\* nor zero
UndeclaredTotalNeverPaid ==
    [][ \A order_id \in DOMAIN orders :
          (~orders[order_id].payment_received /\ orders'[order_id].payment_received)
              => Truthy(orders[order_id].order_total) ]_vars


\* C39: after any sequence of syncs, email parses and warehouse-mapping changes
\* the two warehouse slots of an order never hold the same warehouse:
\* warehouse_1 and warehouse_2 differ when both are set, and warehouse_2 is set
\* only if warehouse_1 is
SlotsHoldDifferentWarehouses ==
    \A order_id \in DOMAIN orders :
        /\ (orders[order_id].warehouse_1 # NULL /\ orders[order_id].warehouse_2 # NULL)
               => orders[order_id].warehouse_1 # orders[order_id].warehouse_2
        /\ orders[order_id].warehouse_2 # NULL => orders[order_id].warehouse_1 # NULL

====
